---- MODULE Spec2Model ----
\* Convergence engine of selective-filebrowser: catalog (SQLite store), the
\* 34-scenario classifier, the P0..P4 pipeline, the two-tier eval queue, the
\* watcher's debounce set, the daemon worker loop with rollback/retry, and the
\* atomic file operations (SafeCopy, SoftDelete, ConflictName).
\*
\* Modelling decisions (all follow from the code, none from the prose spec):
\*  - mtimes and file contents are drawn from one clock `now`; the code only
\*    compares mtimes with != so their magnitude is irrelevant.
\*  - Entry.size and SpacesView.checked_at never influence a decision of the
\*    pipeline and are left out of the rows.
\*  - in Spec .syncignore is taken to hold the pattern ".*", so the walks
\*    skip the trash directory <spaces>/.trash; the trash is a separate store.
\*    IgnoreSpec follows the walks and the watcher with and without it.
\*  - "<path>.sync-tmp" files exist only while one SafeCopy is in flight; the
\*    watcher events they raise lead to passes over a path that no longer
\*    exists (scenario 1, no action) and are not enqueued in the model.
EXTENDS Integers, Sequences, FiniteSets, TLC

\* ---------------------------------------------------------------- bounds
MaxEvents   == 3   \* environment events in all (edits, requests, overflows, cancel)
MaxEdits    == 2   \* external edits of either tree
MaxSelects  == 1   \* select / deselect requests
MaxOverflow == 1   \* watcher overflow signals
MaxClock    == 9   \* cap on the mtime clock
MaxRecover  == 16  \* cap on the mtime clock once a conflict branch has stopped
MaxConflict == 1   \* largest conflict number N a name may get
MaxInode    == 3   \* inode numbers of the catalog rows of the store harness
MaxTrash    == 2   \* files and directories in the trash of the hidden-path harness
MaxMtime    == 2   \* mtimes handed to the classifier harness
MaxPublish  == 18  \* events published on the bus
MaxSubs     == 2   \* Subscribe calls on the bus
MaxQOps     == 5   \* queue operations (push, push many, push priority, pop) of the callers

\* ---------------------------------------------------------------- paths
\* A name is <<stem, n>>: n = 0 is the plain name, n >= 1 is
\* "<stem>_conflict-<n><ext>".  A relative path is a sequence of names.
Nm(stem, n) == <<stem, n>>
DirNames  == {Nm("d", n) : n \in 0..MaxConflict}
FileNames == {Nm("g", n) : n \in 0..MaxConflict}
Paths     == {<<dn>> : dn \in DirNames} \cup {<<dn, fn>> : dn \in DirNames, fn \in FileNames}
D == <<Nm("d", 0)>>
G == <<Nm("d", 0), Nm("g", 0)>>

Base(p)   == p[Len(p)]                         \* filepath.Base
Dir(p)    == SubSeq(p, 1, Len(p) - 1)          \* filepath.Dir ("." is <<>>)
IsPrefix(a, b) == Len(a) <= Len(b) /\ SubSeq(b, 1, Len(a)) = a
Under(a, b)    == IsPrefix(a, b) /\ a # b      \* b lies strictly below a

\* ---------------------------------------------------------------- disk
NoFile == [kind |-> "none"]
File(c, m, ino)  == [kind |-> "file", c |-> c, m |-> m, ino |-> ino]
DirNode(m, ino)  == [kind |-> "dir",  c |-> 0, m |-> m, ino |-> ino]
Exists(t, p)     == p \in Paths /\ t[p].kind # "none"
IsDirAt(t, p)    == p = <<>> \/ (p \in Paths /\ t[p].kind = "dir")

\* A directory's mtime changes when an entry is created in it, removed from it
\* or renamed in it (POSIX).  The two roots carry no mtime the engine reads.
Touch(t, dir, m) ==
    IF dir \in Paths /\ t[dir].kind = "dir" THEN [t EXCEPT ![dir].m = m] ELSE t

\* os.Rename(old, new) of a file or of a whole directory: the subtree moves.
MovePath(old, new, p) == new \o SubSeq(p, Len(old) + 1, Len(p))
RenameTree(t, old, new) ==
    [p \in Paths |->
        IF IsPrefix(new, p) THEN
            (IF MovePath(new, old, p) \in Paths THEN t[MovePath(new, old, p)] ELSE NoFile)
        ELSE IF IsPrefix(old, p) THEN NoFile
        ELSE t[p]]

\* Removal of a path together with everything below it.
RemoveTree(t, old) == [p \in Paths |-> IF IsPrefix(old, p) THEN NoFile ELSE t[p]]

\* Contents of the regular files at or below a path.
BytesUnder(t, p) == {t[q].c : q \in {r \in Paths : IsPrefix(p, r) /\ t[r].kind = "file"}}
AllBytes(t)      == {t[q].c : q \in {r \in Paths : t[r].kind = "file"}}

\* os.MkdirAll(p): creates every missing ancestor and p itself, mtime m.
\* Fails (ok = FALSE) when a component exists and is not a directory.
MkdirAllOk(t, p) == \A i \in 1..Len(p) : LET q == SubSeq(p, 1, i) IN
                        q \in Paths /\ t[q].kind \in {"none", "dir"}
MkdirAllNew(t, p) == {SubSeq(p, 1, i) : i \in {j \in 1..Len(p) : t[SubSeq(p, 1, j)].kind = "none"}}
\* ino = 0 stands for the Spaces tree, whose inodes the engine never reads.
MkdirAll(t, p, m, ino) ==
    [q \in Paths |->
        IF q \in MkdirAllNew(t, p) THEN DirNode(m, IF ino = 0 THEN 0 ELSE ino + Len(q))
        ELSE IF Dir(q) \in Paths /\ q \in Paths /\ t[q].kind = "dir"
                /\ \E n \in MkdirAllNew(t, p) : Dir(n) = q THEN [t[q] EXCEPT !.m = m]
        ELSE t[q]]

\* ---------------------------------------------------------------- catalog
\* entries: set of rows; views: set of spaces_view rows.  parent = 0 is the
\* virtual root.  Schema v3: UNIQUE(parent_ino, name), inode PRIMARY KEY,
\* spaces_view.entry_ino REFERENCES entries(inode) ON UPDATE/DELETE CASCADE.
NoEntry == [ino |-> 0]
NoView  == [ino |-> 0]
Entry(ino, parent, name, type, mtime, sel) ==
    [ino |-> ino, parent |-> parent, name |-> name, type |-> type, mtime |-> mtime, sel |-> sel]
View(ino, synced) == [ino |-> ino, synced |-> synced]

GetEntry(es, ino) ==
    IF \E e \in es : e.ino = ino THEN CHOOSE e \in es : e.ino = ino ELSE NoEntry
GetEntryByPath(es, parent, name) ==
    IF \E e \in es : e.parent = parent /\ e.name = name
    THEN CHOOSE e \in es : e.parent = parent /\ e.name = name ELSE NoEntry
GetSpacesView(vs, ino) ==
    IF \E v \in vs : v.ino = ino THEN CHOOSE v \in vs : v.ino = ino ELSE NoView

\* Rows reachable from a set of inodes through parent_ino (recursive CTE).
RECURSIVE Subtree(_, _)
Subtree(es, inos) ==
    LET more == {e.ino : e \in {x \in es : x.parent \in inos}} \ inos
    IN IF more = {} THEN inos ELSE Subtree(es, inos \cup more)

\* DELETE FROM entries WHERE inode IN (...): spaces_view rows cascade.
DeleteRows(db, inos) ==
    [es |-> {e \in db.es : e.ino \notin inos}, vs |-> {v \in db.vs : v.ino \notin inos}]
DeleteEntry(db, ino) == DeleteRows(db, {ino})
DeleteEntryRecursive(db, ino) == DeleteRows(db, Subtree(db.es, {ino}))

\* UpsertEntry: (1) remove a stale row holding the same inode at another
\* path, with its subtree; (2) INSERT ... ON CONFLICT(parent_ino, name) DO
\* UPDATE SET inode, type, size, mtime (selected is left alone; the changed
\* inode cascades into spaces_view, children keep the old parent_ino).
UpsertEntry(db, e) ==
    LET stale == {x.ino : x \in {y \in db.es : y.ino = e.ino /\ ~(y.parent = e.parent /\ y.name = e.name)}}
        db1   == IF stale = {} THEN db ELSE DeleteRows(db, Subtree(db.es, stale))
        old   == GetEntryByPath(db1.es, e.parent, e.name)
    IN IF old = NoEntry
       THEN [es |-> db1.es \cup {e}, vs |-> db1.vs]
       ELSE [es |-> (db1.es \ {old}) \cup {[old EXCEPT !.ino = e.ino, !.type = e.type, !.mtime = e.mtime]},
             vs |-> {IF v.ino = old.ino THEN [v EXCEPT !.ino = e.ino] ELSE v : v \in db1.vs}]

\* UPDATE entries SET name = ? WHERE inode = ?; fails on UNIQUE(parent, name).
UpdateEntryNameOk(db, ino, name) ==
    LET e == GetEntry(db.es, ino)
    IN e = NoEntry \/ ~(\E x \in db.es : x.ino # ino /\ x.parent = e.parent /\ x.name = name)
UpdateEntryName(db, ino, name) ==
    [db EXCEPT !.es = {IF e.ino = ino THEN [e EXCEPT !.name = name] ELSE e : e \in db.es}]
UpdateEntryMtime(db, ino, mtime) ==
    [db EXCEPT !.es = {IF e.ino = ino THEN [e EXCEPT !.mtime = mtime] ELSE e : e \in db.es}]

\* SetSelected(inodes, flag): each inode and, through directories, every
\* descendant.  setSelectedRecursive descends only into rows of type dir.
RECURSIVE SelSubtree(_, _)
SelSubtree(es, inos) ==
    LET dirs == {e.ino : e \in {x \in es : x.ino \in inos /\ x.type = "dir"}}
        more == {e.ino : e \in {x \in es : x.parent \in dirs}} \ inos
    IN IF more = {} THEN inos ELSE SelSubtree(es, inos \cup more)
SetSelected(db, inos, flag) ==
    LET hit == {e.ino : e \in {x \in db.es : x.ino \in inos \/ x.parent \in inos}}
        all == SelSubtree(db.es, hit) \cup (inos \cap {e.ino : e \in db.es})
    IN [db EXCEPT !.es = {IF e.ino \in all THEN [e EXCEPT !.sel = flag] ELSE e : e \in db.es}]

\* INSERT INTO spaces_view ... ON CONFLICT(entry_ino) DO UPDATE; the foreign
\* key rejects a row whose entry does not exist.
UpsertSpacesViewOk(db, ino) == \E e \in db.es : e.ino = ino
UpsertSpacesView(db, v) == [db EXCEPT !.vs = {x \in db.vs : x.ino # v.ino} \cup {v}]
DeleteSpacesView(db, ino) == [db EXCEPT !.vs = {x \in db.vs : x.ino # ino}]

\* ORDER BY type = 'dir' DESC, name ASC over the direct children.
NameLess(a, b) == (a[1] = "d" /\ b[1] = "g") \/ (a[1] = b[1] /\ a[2] < b[2])
ChildLess(a, b) ==
    \/ a.type = "dir" /\ b.type # "dir"
    \/ (a.type = "dir") = (b.type = "dir") /\ NameLess(a.name, b.name)
RECURSIVE SortRows(_)
SortRows(rows) ==
    IF rows = {} THEN <<>>
    ELSE LET first == CHOOSE r \in rows : \A o \in rows \ {r} : ChildLess(r, o)
         IN <<first>> \o SortRows(rows \ {first})
ListChildren(es, parent) == SortRows({e \in es : e.parent = parent})

\* lookupDB: walk the path components from the virtual root.
RECURSIVE LookupFrom(_, _, _)
LookupFrom(es, parent, parts) ==
    LET e == GetEntryByPath(es, parent, Head(parts))
    IN IF e = NoEntry THEN NoEntry
       ELSE IF Len(parts) = 1 THEN e
       ELSE LookupFrom(es, e.ino, Tail(parts))
lookupEntry(db, p) == IF p = <<>> THEN NoEntry ELSE LookupFrom(db.es, 0, p)
lookupView(db, p) ==
    LET e == lookupEntry(db, p) IN IF e = NoEntry THEN NoView ELSE GetSpacesView(db.vs, e.ino)

\* resolveParentInoFromDB: ok = FALSE when a parent component has no row.
resolveParentOk(db, p)  == Dir(p) = <<>> \/ lookupEntry(db, Dir(p)) # NoEntry
resolveParentIno(db, p) == IF Dir(p) = <<>> THEN 0 ELSE lookupEntry(db, Dir(p)).ino

\* ---------------------------------------------------------------- queue
\* EvalQueue: set/order are the normal tier, hiSet/hiOrder the priority tier.
NewEvalQueue == [set |-> {}, order |-> <<>>, hiSet |-> {}, hiOrder |-> <<>>]
PushOverPriority(q, p) ==
    IF p \in q.set THEN q
    ELSE [q EXCEPT !.set = @ \cup {p}, !.order = Append(@, p)]
Push(q, p) ==
    IF p \in q.set \/ p \in q.hiSet THEN q
    ELSE [q EXCEPT !.set = @ \cup {p}, !.order = Append(@, p)]
PushPriority(q, p) ==
    IF p \in q.hiSet THEN q
    ELSE [q EXCEPT !.hiSet = @ \cup {p}, !.hiOrder = Append(@, p), !.set = @ \ {p}]
\* The non-blocking send on notify, a channel with a buffer of one.
SignalLost(n) == n
Signal(n) == 1
RECURSIVE PushMany(_, _)
PushMany(q, ps) == IF ps = <<>> THEN q ELSE PushMany(Push(q, Head(ps)), Tail(ps))
RECURSIVE PushPriorityMany(_, _)
PushPriorityMany(q, ps) ==
    IF ps = <<>> THEN q ELSE PushPriorityMany(PushPriority(q, Head(ps)), Tail(ps))
HasNormalOnly(q, p) == p \in q.set
Has(q, p) == p \in q.hiSet \/ p \in q.set
QLen(q)   == Len(q.hiOrder) + Cardinality(q.set)

\* Pop: priority tier first; then the normal FIFO, dropping slots whose path
\* is no longer in the normal membership set.
RECURSIVE SkipStale(_, _)
SkipStale(order, set) ==
    IF order = <<>> \/ Head(order) \in set THEN order ELSE SkipStale(Tail(order), set)
PopReady(q) == q.hiOrder # <<>> \/ SkipStale(q.order, q.set) # <<>>
PopPathNormalFirst(q) ==
    IF SkipStale(q.order, q.set) # <<>> THEN Head(SkipStale(q.order, q.set)) ELSE Head(q.hiOrder)
PopPath(q) ==
    IF q.hiOrder # <<>> THEN Head(q.hiOrder) ELSE Head(SkipStale(q.order, q.set))
PopQueue(q) ==
    IF q.hiOrder # <<>>
    THEN [q EXCEPT !.hiOrder = Tail(@), !.hiSet = @ \ {Head(q.hiOrder)}, !.set = @ \ {Head(q.hiOrder)}]
    ELSE LET rest == SkipStale(q.order, q.set)
         IN IF rest = <<>> THEN [q EXCEPT !.order = <<>>]
            ELSE [q EXCEPT !.order = Tail(rest), !.set = @ \ {Head(rest)}]

\* All orders in which the elements of a set can be listed (Go map iteration).
RECURSIVE Orders(_)
Orders(S) ==
    IF S = {} THEN {<<>>}
    ELSE UNION {{<<x>> \o o : o \in Orders(S \ {x})} : x \in S}

\* ---------------------------------------------------------------- classifier
\* ComputeState(entry, sv, archiveMtime, spacesMtime); an absent mtime is 0.
ComputeState(entry, sv, aM, sM) ==
    [ADisk    |-> aM # 0,
     ADb      |-> entry # NoEntry,
     SDisk    |-> sM # 0,
     SDb      |-> sv # NoView,
     Selected |-> IF entry # NoEntry THEN entry.sel ELSE FALSE,
     ADirty   |-> IF entry # NoEntry /\ aM # 0 THEN aM # entry.mtime ELSE FALSE,
     SDirty   |-> IF sv # NoView /\ sM # 0 THEN sM # sv.synced ELSE FALSE]

Scenario(s) ==
    IF ~s.ADb THEN
        (IF ~s.ADisk /\ ~s.SDisk THEN 1
         ELSE IF s.ADisk /\ ~s.SDisk THEN 2
         ELSE IF ~s.ADisk /\ s.SDisk THEN 3
         ELSE 4)
    ELSE IF ~s.ADisk THEN
        (IF ~s.SDisk THEN
            (IF ~s.SDb THEN (IF ~s.Selected THEN 5 ELSE 6)
             ELSE (IF ~s.Selected THEN 7 ELSE 8))
         ELSE IF ~s.SDb THEN (IF ~s.Selected THEN 9 ELSE 10)
         ELSE IF ~s.Selected /\ ~s.SDirty THEN 11
         ELSE IF ~s.Selected /\ s.SDirty THEN 12
         ELSE IF s.Selected /\ ~s.SDirty THEN 13
         ELSE 14)
    ELSE IF ~s.SDisk /\ ~s.SDb THEN
        (IF ~s.Selected /\ ~s.ADirty THEN 15
         ELSE IF ~s.Selected /\ s.ADirty THEN 16
         ELSE IF s.Selected /\ ~s.ADirty THEN 17
         ELSE 18)
    ELSE IF ~s.SDisk /\ s.SDb THEN
        (IF ~s.Selected /\ ~s.ADirty THEN 19
         ELSE IF ~s.Selected /\ s.ADirty THEN 20
         ELSE IF s.Selected /\ ~s.ADirty THEN 21
         ELSE 22)
    ELSE IF s.SDisk /\ ~s.SDb THEN
        (IF ~s.Selected /\ ~s.ADirty THEN 23
         ELSE IF ~s.Selected /\ s.ADirty THEN 24
         ELSE IF s.Selected /\ ~s.ADirty THEN 25
         ELSE 26)
    ELSE IF ~s.Selected THEN
        (IF ~s.ADirty /\ ~s.SDirty THEN 27
         ELSE IF ~s.ADirty /\ s.SDirty THEN 28
         ELSE IF s.ADirty /\ ~s.SDirty THEN 29
         ELSE 30)
    ELSE IF ~s.ADirty /\ ~s.SDirty THEN 31
    ELSE IF ~s.ADirty /\ s.SDirty THEN 32
    ELSE IF s.ADirty /\ ~s.SDirty THEN 33
    ELSE 34

UIStatus(s) ==
    LET sc == Scenario(s) IN
    IF sc = 1 THEN ""
    ELSE IF sc = 15 THEN "archived"
    ELSE IF sc = 31 THEN "synced"
    ELSE IF sc = 17 \/ sc = 18 THEN "syncing"
    ELSE IF sc = 27 \/ sc = 28 \/ sc = 29 THEN "removing"
    ELSE IF sc = 32 \/ sc = 33 THEN "updating"
    ELSE IF sc = 30 \/ sc = 34 THEN "conflict"
    ELSE IF sc >= 9 /\ sc <= 14 THEN "recovering"
    ELSE IF sc >= 5 /\ sc <= 8 THEN "lost"
    ELSE IF sc >= 2 /\ sc <= 4 THEN "untracked"
    ELSE IF sc >= 19 /\ sc <= 26 THEN "repairing"
    ELSE IF sc = 16 THEN "archived"
    ELSE "unknown"

\* NewEventBus: no client; nobody is publishing.  A client that has not
\* subscribed, or has unsubscribed, holds no channel.  got is the last event
\* its reader has taken from the channel.  closing: the channels that have
\* left the map and are not closed yet.
Clients == {"c1", "c2"}
NoChannel == [on |-> FALSE, buf |-> <<>>, got |-> 0]
NewEventBus == [clients |-> [c \in Clients |-> NoChannel],
                n |-> 0, pc |-> "idle", todo |-> {}, subs |-> 0, closing |-> {}]

\* No listing item has been classified yet.
NoLabel == [called |-> FALSE]

\* statFile: the mtime of a path, 0 when it does not exist.
StatM(t, p) == IF Exists(t, p) THEN t[p].m ELSE 0

\* ---------------------------------------------------------------- state
VARIABLES
    arch, spc,      \* the Archives and the Spaces tree: [Paths -> node]
    trash,          \* <spaces>/.trash/<date>/: set of [name, n, bytes]
    now, nextIno,   \* mtime clock; next inode the Archives filesystem hands out
    db,             \* catalog: [es |-> entries rows, vs |-> spaces_view rows]
    q,              \* EvalQueue
    pending,        \* the watcher's debounce set
    cancelled,      \* ctx.Done() is closed
    pc, cur, attempt, L, cp,   \* the worker: position, popped path, attempt, pipeline locals, SafeCopy locals
    copyRes,        \* result of the last SafeCopy of the current pass
    edits, overflows,  \* external edits and overflow signals so far
    selects,        \* the select / deselect requests so far
    hist,           \* history of the current or last pop (for the properties)
    notify,         \* EvalQueue.notify: tokens in the buffered channel (0 or 1)
    ignore,         \* the patterns loaded from .syncignore
    ui,             \* the last classification made: inputs, State, scenario, label
    bus,            \* EventBus: the clients' channels and the Publish in progress
    watch,          \* the watcher's list of directories and the events it has not read yet
    scan,           \* the full scans: callers' positions, overflow channel, atomic flag
    qh              \* callers of the queue: the Pop in progress, pushers about to signal, ledger

vars == <<arch, spc, trash, now, nextIno, db, q, pending, cancelled,
          pc, cur, attempt, L, cp, copyRes, edits, selects, overflows, hist, notify, qh, ignore, ui, bus, watch, scan>>

\* The watch list is kept only where directories are created while the
\* daemon runs; elsewhere every directory is there from the start and is
\* watched.  pushed: the paths flushed to the queue since they last changed.
NoWatch == [dirs |-> {}, events |-> {}, pushed |-> {}]

\* The full scans are steps of their own only where overflow signals are
\* followed; elsewhere enqueueAll is one step and scan stays as it is here.
\* main, handler: where Daemon.Run and the overflow goroutine stand; ch:
\* signals buffered in Watcher.Overflow; scanning: the atomic flag; sigs:
\* overflows so far; seen: overflows that had happened when the scan of
\* each caller began; answered: overflows a finished scan began after;
\* busy: overflows signalled while a scan was running.
NoScan == [main |-> "start", handler |-> "off", ch |-> 0, scanning |-> FALSE,
           sigs |-> 0, busy |-> 0, seen |-> [g \in {"main", "handler"} |-> 0], answered |-> 0]

\* The part of the state the file operations and the stages work on.
World == [arch |-> arch, spc |-> spc, trash |-> trash, now |-> now,
          nextIno |-> nextIno, db |-> db, pending |-> pending]
SetWorld(w) ==
    /\ arch' = w.arch /\ spc' = w.spc /\ trash' = w.trash /\ now' = w.now
    /\ nextIno' = w.nextIno /\ db' = w.db /\ pending' = w.pending

TreeOf(w, id) == IF id = "A" THEN w.arch ELSE w.spc
SetTree(w, id, t) == IF id = "A" THEN [w EXCEPT !.arch = t] ELSE [w EXCEPT !.spc = t]
Other(id) == IF id = "A" THEN "S" ELSE "A"

\* Watcher.Start, event case: the relative path joins the debounce set.
\* Names starting with "." or containing ".sync-conflict-" are skipped; no
\* name of the model matches either test.
WatchEvent(w, ps) == [w EXCEPT !.pending = @ \cup (ps \cap Paths)]

\* ---------------------------------------------------------------- file ops
\* ConflictName: smallest i >= 1 such that "<stem>_conflict-<i><ext>" does
\* not exist beside the original.
RECURSIVE ConflictFrom(_, _, _)
ConflictFrom(t, p, i) ==
    LET cand == Dir(p) \o <<Nm(Base(p)[1], i)>>
    IN IF cand \in Paths /\ Exists(t, cand) THEN ConflictFrom(t, p, i + 1) ELSE i
ConflictN(t, p)    == ConflictFrom(t, p, 1)
ConflictName(t, p) == Nm(Base(p)[1], ConflictN(t, p))
\* The model holds names up to MaxConflict, and no conflict name of a conflict name.
ConflictInModel(t, p) == Base(p)[2] = 0 /\ ConflictN(t, p) <= MaxConflict

\* SoftDelete: "<base>" if unused in the dated trash directory, else
\* "<stem>_<i><ext>" with the smallest unused i >= 1; one rename.
RECURSIVE TrashFrom(_, _, _)
TrashFrom(tr, base, i) ==
    IF \E x \in tr : x.name = base /\ x.n = i THEN TrashFrom(tr, base, i + 1) ELSE i
TrashSlot(tr, base) == TrashFrom(tr, base, 0)
SoftDelete(w, p) ==
    LET w1 == [w EXCEPT !.trash = @ \cup {[name |-> Base(p), n |-> TrashSlot(w.trash, Base(p)),
                                            bytes |-> BytesUnder(w.spc, p)]},
                        !.spc = Touch(RemoveTree(w.spc, p), Dir(p), w.now + 1),
                        !.now = @ + 1]
    IN WatchEvent(w1, {p})

\* SafeCopy, step 1: stat src (mtime1), MkdirAll(dir of dst), open src,
\* create dst.sync-tmp.  res = "err" when the stat or the mkdir fails.
NoCopy == [phase |-> 0]
SafeCopyOpen(w, srcId, p, site) ==
    LET src == TreeOf(w, srcId)
        dst == TreeOf(w, Other(srcId))
    IN IF ~Exists(src, p) \/ ~MkdirAllOk(dst, Dir(p))
       THEN [res |-> "err", w |-> w, cp |-> NoCopy]
       ELSE LET made == MkdirAllNew(dst, Dir(p))
                d1   == Touch(MkdirAll(dst, Dir(p), w.now + 1, IF srcId = "S" THEN w.nextIno ELSE 0),
                              Dir(p), w.now + 1)
                w1   == [SetTree(w, Other(srcId), d1) EXCEPT
                            !.now = @ + 1,
                            !.nextIno = IF srcId = "S" THEN @ + Len(p) ELSE @]
            IN [res |-> "copy",
                w   |-> WatchEvent(w1, made),
                cp  |-> [phase |-> 1, src |-> srcId, site |-> site, m1 |-> src[p].m,
                         c0 |-> src[p].c, ino |-> src[p].ino, buf |-> 0, dst0 |-> dst[p]]]

\* Removal of dst.sync-tmp on a failure path: the directory of dst changes.
RemoveTmp(w, dstId, p) ==
    [SetTree(w, dstId, Touch(TreeOf(w, dstId), Dir(p), w.now + 1)) EXCEPT !.now = @ + 1]

\* SafeCopy without the verification of step 5.
SourceUnverified(m1, m2) == TRUE
\* SafeCopy, the verification of step 5: mtime1 against the re-stat.
SourceUnchanged(m1, m2) == m1 = m2

\* SafeCopy, last step: Chtimes(tmp, mtime1) and Rename(tmp, dst).
PublishTmp(w, dstId, p, c) ==
    LET t  == TreeOf(w, dstId)
        t1 == Touch([t EXCEPT ![p] = File(c.buf, c.m1, IF dstId = "A" THEN w.nextIno ELSE 0)],
                    Dir(p), w.now + 1)
    IN WatchEvent([SetTree(w, dstId, t1) EXCEPT !.now = @ + 1,
                       !.nextIno = IF dstId = "A" THEN @ + 1 ELSE @], {p})

\* ---------------------------------------------------------------- pipeline
\* The locals of RunPipeline: archiveMtime, archiveIsDir, archiveInode,
\* spacesMtime, entry, sv and the State computed from them.
Locals(aM, aDir, aIno, sM, entry, sv) ==
    [aM |-> aM, aDir |-> aDir, aIno |-> aIno, sM |-> sM, entry |-> entry, sv |-> sv,
     st |-> ComputeState(entry, sv, aM, sM)]
NoLocals == Locals(0, FALSE, 0, 0, NoEntry, NoView)

\* Gather at the start of a pass and the re-gather after P0: everything.
GatherAll(w, p) ==
    Locals(StatM(w.arch, p), IsDirAt(w.arch, p) /\ Exists(w.arch, p),
           IF Exists(w.arch, p) THEN w.arch[p].ino ELSE 0,
           StatM(w.spc, p), lookupEntry(w.db, p), lookupView(w.db, p))
\* Re-gather after P1: the catalog only.
GatherDB(w, p, l) ==
    Locals(l.aM, l.aDir, l.aIno, l.sM, lookupEntry(w.db, p), lookupView(w.db, p))
\* Re-gather after P2: both mtimes and the catalog.
GatherMtimes(w, p, l) ==
    Locals(StatM(w.arch, p), l.aDir, l.aIno, StatM(w.spc, p),
           lookupEntry(w.db, p), lookupView(w.db, p))
\* Re-gather after P3: the Spaces mtime and the catalog.
GatherSpaces(w, p, l) ==
    Locals(l.aM, l.aDir, l.aIno, StatM(w.spc, p), lookupEntry(w.db, p), lookupView(w.db, p))
Regather(k, w, p, l) ==
    IF k = 0 THEN GatherAll(w, p)
    ELSE IF k = 1 THEN GatherDB(w, p, l)
    ELSE IF k = 2 THEN GatherMtimes(w, p, l)
    ELSE IF k = 3 THEN GatherSpaces(w, p, l)
    ELSE l

\* The guards of the five stages, with P2 entered whenever Spaces exists.
StageGuardEager(k, l) ==
    IF k = 0 THEN ~l.st.ADisk
    ELSE IF k = 1 THEN ~l.st.ADb /\ l.st.ADisk
    ELSE IF k = 2 THEN l.st.ADirty \/ l.st.SDirty \/ l.st.SDb
    ELSE IF k = 3 THEN l.entry # NoEntry /\ l.entry.sel # l.st.SDisk
    ELSE l.st.SDb # l.st.SDisk
\* The guards of the five stages in RunPipeline.
StageGuard(k, l) ==
    IF k = 0 THEN ~l.st.ADisk
    ELSE IF k = 1 THEN ~l.st.ADb /\ l.st.ADisk
    ELSE IF k = 2 THEN l.st.ADirty \/ l.st.SDirty
    ELSE IF k = 3 THEN l.entry # NoEntry /\ l.entry.sel # l.st.SDisk
    ELSE l.st.SDb # l.st.SDisk
\* Number of stages whose guard holds on the gathered state.
GuardCount(l) == Cardinality({k \in 0..4 : StageGuard(k, l)})
\* First stage from k on whose guard holds; 5 when the pass is over.
RECURSIVE NextStage(_, _)
NextStage(k, l) == IF k > 4 THEN 5 ELSE IF StageGuard(k, l) THEN k ELSE NextStage(k + 1, l)
StagePc(k) == IF k = 0 THEN "p0" ELSE IF k = 1 THEN "p1" ELSE IF k = 2 THEN "p2"
              ELSE IF k = 3 THEN "p3" ELSE IF k = 4 THEN "p4" ELSE "done"

Ok(w)  == [res |-> "ok",  w |-> w, cp |-> NoCopy]
Err(w) == [res |-> "err", w |-> w, cp |-> NoCopy]

\* p0: Archives is missing.  Spaces present: recover by SafeCopy S -> A;
\* both missing: delete the rows.
p0(w, p, l) ==
    IF l.st.SDisk THEN SafeCopyOpen(w, "S", p, "p0")
    ELSE IF l.entry # NoEntry
         THEN Ok([w EXCEPT !.db = DeleteEntry(DeleteSpacesView(w.db, l.entry.ino), l.entry.ino)])
         ELSE Ok(w)
p0After(w, p, l) ==
    IF l.entry # NoEntry /\ Exists(w.arch, p)
    THEN Ok([w EXCEPT !.db = UpdateEntryMtime(w.db, l.entry.ino, w.arch[p].m)])
    ELSE Ok(w)

\* A p1 that returns without writing the row.
p1Unregistered(w, p, l) == Ok(w)
\* p1: register the Archives file; selected = S_disk.
p1(w, p, l) ==
    IF ~resolveParentOk(w.db, p) THEN Err(w)
    ELSE Ok([w EXCEPT !.db = UpsertEntry(w.db,
                Entry(l.aIno, resolveParentIno(w.db, p), Base(p),
                      IF l.aDir THEN "dir" ELSE "file", l.aM, l.st.SDisk))])

\* The UpsertSpacesView that follows a copy: stat Spaces (a failed stat is
\* skipped), store its mtime under the given entry_ino.
viewFromDisk(w, p, ino) ==
    IF ~Exists(w.spc, p) THEN Ok(w)
    ELSE IF ~UpsertSpacesViewOk(w.db, ino) THEN Err(w)
    ELSE Ok([w EXCEPT !.db = UpsertSpacesView(w.db, View(ino, w.spc[p].m))])
\* p2, A_dirty branch, first half: stat Archives, UpdateEntryMtime.
refreshEntry(w, p, l) ==
    IF ~Exists(w.arch, p) THEN Err(w)
    ELSE Ok([w EXCEPT !.db = UpdateEntryMtime(w.db, l.entry.ino, w.arch[p].m)])
\* updateEntryFromDisk: entry mtime from Archives, spaces_view from Spaces.
updateEntryFromDisk(w, p, l) ==
    LET r == refreshEntry(w, p, l)
    IN IF r.res = "err" \/ l.sv = NoView THEN r ELSE viewFromDisk(r.w, p, l.sv.ino)

\* p2, both dirty: catalog row takes the conflict name, the Archives path
\* is renamed to it, then Spaces is copied over the original name.
p2Conflict(w, p, l) ==
    LET cname == ConflictName(w.arch, p)
        cpath == Dir(p) \o <<cname>>
    IN IF ~UpdateEntryNameOk(w.db, l.entry.ino, cname) THEN Err(w)
       ELSE LET w1 == [w EXCEPT !.db = UpdateEntryName(w.db, l.entry.ino, cname)]
            IN IF ~Exists(w1.arch, p) THEN Err(w1)
               ELSE LET w2 == WatchEvent(
                                [w1 EXCEPT !.arch = Touch(RenameTree(w1.arch, p, cpath), Dir(p), w1.now + 1),
                                           !.now = @ + 1], {p, cpath})
                        r  == SafeCopyOpen(w2, "S", p, "p2c")
                    IN IF r.res # "copy" THEN r
                       ELSE [r EXCEPT !.cp = [a0 |-> w.arch[p], cn |-> cpath,
                                              had |-> {x \in Paths : Exists(w.arch, x)}] @@ r.cp]
p2ConflictAfter(w, p, l) ==
    IF ~Exists(w.arch, p) THEN Err(w)
    ELSE LET w1 == [w EXCEPT !.db = UpsertEntry(w.db,
                        Entry(w.arch[p].ino, l.entry.parent, l.entry.name, l.entry.type,
                              w.arch[p].m, TRUE))]
         IN IF l.sv = NoView THEN Ok(w1) ELSE viewFromDisk(w1, p, w.arch[p].ino)

p2(w, p, l) ==
    IF l.st.ADirty /\ l.st.SDirty THEN p2Conflict(w, p, l)
    ELSE IF l.st.ADirty THEN
        (LET r == refreshEntry(w, p, l)
         IN IF r.res = "err" THEN r
            ELSE IF l.entry.sel /\ l.st.SDisk THEN SafeCopyOpen(r.w, "A", p, "p2a")
            ELSE r)
    ELSE SafeCopyOpen(w, "S", p, "p2s")
p2After(site, w, p, l) ==
    IF site = "p2c" THEN p2ConflictAfter(w, p, l)
    ELSE IF site = "p2a" THEN (IF l.sv = NoView THEN Ok(w) ELSE viewFromDisk(w, p, l.sv.ino))
    ELSE updateEntryFromDisk(w, p, l)

\* p3: selected and not on Spaces: re-check the row, mkdir or SafeCopy
\* A -> S, record the spaces_view; deselected and on Spaces: SoftDelete.
p3After(w, p, l) == viewFromDisk(w, p, l.entry.ino)
p3(w, p, l) ==
    IF l.entry.sel /\ ~l.st.SDisk THEN
        (LET fresh == GetEntry(w.db.es, l.entry.ino)
         IN IF fresh = NoEntry \/ ~fresh.sel THEN Ok(w)
            ELSE IF l.entry.type = "dir" THEN
                (IF ~MkdirAllOk(w.spc, p) THEN Err(w)
                 ELSE IF MkdirAllNew(w.spc, p) = {} THEN p3After(w, p, l)
                 ELSE p3After(WatchEvent([w EXCEPT !.spc = MkdirAll(w.spc, p, w.now + 1, 0),
                                                   !.now = @ + 1], MkdirAllNew(w.spc, p)), p, l))
            ELSE SafeCopyOpen(w, "A", p, "p3"))
    ELSE IF ~l.entry.sel /\ l.st.SDisk THEN
        (IF ~Exists(w.spc, p) THEN Err(w) ELSE Ok(SoftDelete(w, p)))
    ELSE Ok(w)

\* p4: align the spaces_view row with what is on Spaces.
p4(w, p, l) ==
    IF l.st.SDisk /\ ~l.st.SDb THEN
        (IF l.entry = NoEntry THEN Ok(w)
         ELSE IF ~Exists(w.spc, p) \/ ~UpsertSpacesViewOk(w.db, l.entry.ino) THEN Err(w)
         ELSE Ok([w EXCEPT !.db = UpsertSpacesView(w.db, View(l.entry.ino, w.spc[p].m))]))
    ELSE IF ~l.st.SDisk /\ l.st.SDb THEN
        (IF l.sv = NoView THEN Ok(w) ELSE Ok([w EXCEPT !.db = DeleteSpacesView(w.db, l.sv.ino)]))
    ELSE Ok(w)

Stage(k, w, p, l) ==
    IF k = 0 THEN p0(w, p, l) ELSE IF k = 1 THEN p1(w, p, l) ELSE IF k = 2 THEN p2(w, p, l)
    ELSE IF k = 3 THEN p3(w, p, l) ELSE p4(w, p, l)
\* The rest of a stage once its SafeCopy has succeeded.
StageAfter(site, w, p, l) ==
    IF site = "p0" THEN p0After(w, p, l)
    ELSE IF site = "p3" THEN p3After(w, p, l)
    ELSE p2After(site, w, p, l)
SiteStage(site) == IF site = "p0" THEN 0 ELSE IF site = "p3" THEN 3 ELSE 2

\* ---------------------------------------------------------------- daemon
\* rollbackState without its second half: the spaces_view row is left alone.
rollbackSelectedOnly(w, p) ==
    LET spacesExists == Exists(w.spc, p)
        entry == lookupEntry(w.db, p)
    IN IF entry = NoEntry \/ entry.sel = spacesExists THEN w
       ELSE [w EXCEPT !.db = SetSelected(w.db, {entry.ino}, spacesExists)]
\* rollbackState: selected and the spaces_view row follow Spaces as it is now.
rollbackState(w, p) ==
    LET spacesExists == Exists(w.spc, p)
        entry == lookupEntry(w.db, p)
        sv    == lookupView(w.db, p)
        db1   == IF spacesExists /\ ~entry.sel THEN SetSelected(w.db, {entry.ino}, TRUE)
                 ELSE IF ~spacesExists /\ entry.sel THEN SetSelected(w.db, {entry.ino}, FALSE)
                 ELSE w.db
        db2   == IF spacesExists /\ sv = NoView THEN UpsertSpacesView(db1, View(entry.ino, w.spc[p].m))
                 ELSE IF ~spacesExists /\ sv # NoView THEN DeleteSpacesView(db1, sv.ino)
                 ELSE db1
    IN IF entry = NoEntry THEN w ELSE [w EXCEPT !.db = db2]

\* walkAndEnqueue: filepath.WalkDir order, parents before children.
RECURSIVE SortNames(_)
SortNames(ns) ==
    IF ns = {} THEN <<>>
    ELSE LET first == CHOOSE n \in ns : \A o \in ns \ {n} : NameLess(n, o)
         IN <<first>> \o SortNames(ns \ {first})
RECURSIVE WalkFrom(_, _, _)
WalkFrom(t, dir, names) ==
    IF names = <<>> THEN <<>>
    ELSE LET p == dir \o <<Head(names)>>
             below == IF t[p].kind = "dir"
                      THEN WalkFrom(t, p, SortNames({n \in FileNames : Exists(t, p \o <<n>>)}))
                      ELSE <<>>
         IN <<p>> \o below \o WalkFrom(t, dir, Tail(names))
walkAndEnqueue(t) == WalkFrom(t, <<>>, SortNames({n \in DirNames : Exists(t, <<n>>)}))
\* reconcileChildren: the catalog tree in ListChildren order.
RECURSIVE reconcileRows(_, _, _)
reconcileRows(es, rows, parentPath) ==
    IF rows = <<>> THEN <<>>
    ELSE LET child == Head(rows)
             rel   == parentPath \o <<child.name>>
             below == IF child.type = "dir"
                      THEN reconcileRows(es, ListChildren(es, child.ino), rel) ELSE <<>>
         IN <<rel>> \o below \o reconcileRows(es, Tail(rows), parentPath)
reconcileChildren(es) == reconcileRows(es, ListChildren(es, 0), <<>>)
enqueueAll(qu, w) ==
    PushMany(PushMany(PushMany(qu, walkAndEnqueue(w.arch)), walkAndEnqueue(w.spc)),
             reconcileChildren(w.db.es))

\* History of a pop: passes, statuses and rollbacks so far; of its current
\* pass the scenario and the number of stage guards that held at the gather,
\* and the number of edits and requests that had happened by then.
\* stopped records the last conflict branch that returned an error after
\* its catalog rename: the path, the conflict path, what the two disks
\* held under the path before it, and the edits and requests until then.
NoStop == [on |-> FALSE]
NewHist == [runs |-> 0, emits |-> 0, rollbacks |-> 0, sc0 |-> 0, waited |-> FALSE,
            g0 |-> 0, ev0 |-> 0, stopped |-> NoStop]

\* .syncignore: a line ".*"; Match is filepath.Match over the names of the
\* model, where only the names of DotNames begin with a dot.
TrashDir == <<".trash", 0>>
DateDir  == <<"2006-01-02", 0>>
DotNames == {TrashDir}
HasDotPrefix(name) == name \in DotNames
DotPattern == [pattern |-> ".*", dirOnly |-> FALSE]
Match(pattern, name) == pattern = ".*" /\ HasDotPrefix(name)
IsIgnored(ig, name, isDir) ==
    \E pat \in ig : (~pat.dirOnly \/ isDir) /\ Match(pat.pattern, name)

\* Nobody is calling the queue: no Pop in progress, no pusher between its
\* unlock and its send on notify.  tier/stamp keep, for every path, the tier it
\* is pending in and the number of the operation that inserted it there.
NoReturn == [path |-> <<>>, ok |-> FALSE, tier |-> "none", stamp |-> 0]
NewCallers == [ops |-> 0, pop |-> "none", slept |-> FALSE, ret |-> NoReturn,
               sends |-> 0, seq |-> 0,
               tier |-> [p \in Paths |-> "none"], stamp |-> [p \in Paths |-> 0]]

InitArch == [p \in Paths |-> IF p = D THEN DirNode(1, 1) ELSE IF p = G THEN File(1, 1, 2) ELSE NoFile]
InitSpcs == {[p \in Paths |-> NoFile],
             [p \in Paths |-> IF p = D THEN DirNode(1, 0) ELSE IF p = G THEN File(1, 1, 0) ELSE NoFile]}

Init ==
    /\ arch = InitArch
    /\ spc \in InitSpcs
    /\ trash = {}
    /\ now = 1 /\ nextIno = 3
    /\ db = [es |-> {}, vs |-> {}]
    /\ q = NewEvalQueue
    /\ pending = {}
    /\ cancelled = FALSE
    /\ pc = "start" /\ cur = <<>> /\ attempt = 0 /\ L = NoLocals /\ cp = NoCopy
    /\ copyRes = "none"
    /\ edits = 0 /\ selects = <<>> /\ overflows = 0
    /\ hist = NewHist
    /\ notify = 0
    /\ qh = NewCallers
    /\ ignore = {DotPattern}
    /\ ui = NoLabel
    /\ bus = NewEventBus
    /\ watch = NoWatch
    /\ scan = NoScan

\* Daemon.Run up to the worker loop: the initial full scan.
Startup ==
    /\ pc = "start"
    /\ q' = enqueueAll(q, World)
    /\ pc' = "idle"
    /\ UNCHANGED <<notify, qh, ignore, ui, bus, watch, scan, arch, spc, trash, now, nextIno, db, pending, cancelled, cur, attempt, L, cp,
                   copyRes, edits, selects, overflows, hist>>

\* Where RunPipeline goes after stage k - 1: the next stage whose guard
\* holds, or back to the worker loop (emitStatus, next Pop).
Advance(k, l) == IF NextStage(k, l) = 5 THEN "idle" ELSE StagePc(NextStage(k, l))

\* The worker's locals.  path, attempt and the pipeline's locals are dead
\* once the loop is back at Pop or has been left, and are then reset; going
\* back to Pop passes the loop's closing emitStatus.
Worker(target, p, a, l, c, r, h) ==
    /\ pc' = target
    /\ copyRes' = r
    /\ hist' = IF target = "idle" THEN [h EXCEPT !.emits = @ + 1] ELSE h
    /\ IF target \in {"idle", "stopped"}
       THEN cur' = <<>> /\ attempt' = 0 /\ L' = NoLocals /\ cp' = NoCopy
       ELSE cur' = p /\ attempt' = a /\ L' = l /\ cp' = c

\* How far the worker's clock is followed: further in the runs in which a
\* conflict branch has stopped, so that the passes after it are seen.
Horizon == IF hist.stopped.on THEN MaxRecover ELSE MaxClock

\* The history notes a conflict branch that stops after its catalog rename.
NoteStop(h, p, cn, a, s) ==
    [h EXCEPT !.stopped = [on |-> TRUE, p |-> p, cn |-> cn, a |-> a, s |-> s,
                           ev |-> edits + Len(selects)]]
NoteCopyStop(h) ==
    IF cp.site = "p2c" THEN NoteStop(h, cur, cp.cn, cp.a0, [kind |-> "file", c |-> cp.c0]) ELSE h

\* Worker loop: Pop, then the gather of RunPipeline.
Pop ==
    /\ pc = "idle" /\ PopReady(q)
    /\ LET p == PopPath(q)
           l == GatherAll(World, p)
       IN Worker(Advance(0, l), p, 1, l, NoCopy, "none",
                 [NewHist EXCEPT !.runs = 1, !.sc0 = Scenario(l.st),
                                 !.g0 = GuardCount(l), !.ev0 = edits + Len(selects),
                                 !.stopped = hist.stopped])
    /\ q' = PopQueue(q)
    /\ UNCHANGED <<notify, qh, ignore, ui, bus, watch, scan, arch, spc, trash, now, nextIno, db, pending, cancelled, edits, selects, overflows>>

\* Pop with nothing to hand out and the context done: the worker stops.
Stop ==
    /\ pc = "idle" /\ ~PopReady(q) /\ cancelled
    /\ Worker("stopped", cur, attempt, L, cp, copyRes, hist)
    /\ q' = PopQueue(q)
    /\ UNCHANGED <<notify, qh, ignore, ui, bus, watch, scan, arch, spc, trash, now, nextIno, db, pending, cancelled, edits, selects, overflows>>

StageNo == IF pc = "p0" THEN 0 ELSE IF pc = "p1" THEN 1 ELSE IF pc = "p2" THEN 2
           ELSE IF pc = "p3" THEN 3 ELSE 4

\* One stage of RunPipeline up to its end, its error return, or the point
\* where its SafeCopy has created the tmp file; then the stage's re-gather.
RunStage ==
    /\ pc \in {"p0", "p1", "p2", "p3", "p4"}
    /\ now + 1 < Horizon
    /\ (pc = "p2" /\ L.st.ADirty /\ L.st.SDirty) => ConflictInModel(arch, cur)
    /\ LET r == Stage(StageNo, World, cur, L)
           l == Regather(StageNo, r.w, cur, L)
       IN /\ SetWorld(r.w)
          /\ IF r.res = "ok"
             THEN Worker(Advance(StageNo + 1, l), cur, attempt, l, NoCopy, copyRes, hist)
             ELSE Worker(IF r.res = "copy" THEN "copy" ELSE "failed",
                         cur, attempt, L, r.cp, copyRes,
                         IF r.res = "err" /\ pc = "p2" /\ L.st.ADirty /\ L.st.SDirty /\ r.w.db # db
                         THEN NoteStop(hist, cur, Dir(cur) \o <<ConflictName(arch, cur)>>,
                                       arch[cur], spc[cur])
                         ELSE hist)
    /\ UNCHANGED <<notify, qh, ignore, ui, bus, watch, scan, q, cancelled, edits, selects, overflows>>

\* The log of requests notes that the copy to Spaces a select request asked
\* for was given up because its path was queued again.
NoteAbort(sel, p, src, res) ==
    IF sel # <<>> /\ res = "Requeued" /\ src = "A"
       /\ sel[Len(sel)].flag /\ sel[Len(sel)].path = p
    THEN [sel EXCEPT ![Len(sel)].requeued = TRUE]
    ELSE sel

\* SafeCopy, the copy loop's first round: ctx check, hasQueued check, read
\* of the source into the tmp file.  A failed round removes the tmp file.
CopyFail(res) ==
    /\ SetWorld(RemoveTmp(World, Other(cp.src), cur))
    /\ Worker("failed", cur, attempt, L, NoCopy, res, NoteCopyStop(hist))
    /\ selects' = NoteAbort(selects, cur, cp.src, res)
    /\ UNCHANGED <<notify, qh, ignore, ui, bus, watch, scan, q, cancelled, edits, overflows>>
CopyRead ==
    /\ pc = "copy" /\ cp.phase = 1
    /\ now < Horizon
    /\ LET src == TreeOf(World, cp.src)
       IN IF cancelled THEN CopyFail("Cancelled")
          ELSE IF Has(q, cur) THEN CopyFail("Requeued")
          ELSE IF Exists(src, cur) /\ src[cur].ino = cp.ino /\ src[cur].kind = "dir" THEN CopyFail("Io")
          ELSE /\ cp' = [cp EXCEPT !.phase = 2,
                                   !.buf = IF Exists(src, cur) /\ src[cur].ino = cp.ino
                                           THEN src[cur].c ELSE cp.c0]
               /\ UNCHANGED <<notify, qh, ignore, ui, bus, watch, scan, arch, spc, trash, now, nextIno, db, q, pending, cancelled, pc, cur,
                              attempt, L, copyRes, edits, selects, overflows, hist>>

\* SafeCopy, the round that reads EOF, the mtime verification, Chtimes and
\* the rename; on success the rest of the stage and its re-gather.
CopyFinish ==
    /\ pc = "copy" /\ cp.phase = 2
    /\ now < Horizon
    /\ LET src == TreeOf(World, cp.src)
       IN IF cancelled THEN CopyFail("Cancelled")
          ELSE IF Has(q, cur) THEN CopyFail("Requeued")
          ELSE IF ~Exists(src, cur) THEN CopyFail("Io")
          ELSE IF ~SourceUnchanged(cp.m1, src[cur].m) THEN CopyFail("SourceModified")
          ELSE IF IsDirAt(TreeOf(World, Other(cp.src)), cur) THEN CopyFail("Io")
          ELSE LET r == StageAfter(cp.site, PublishTmp(World, Other(cp.src), cur, cp), cur, L)
                   l == Regather(SiteStage(cp.site), r.w, cur, L)
               IN /\ SetWorld(r.w)
                  /\ IF r.res = "ok"
                     THEN Worker(Advance(SiteStage(cp.site) + 1, l), cur, attempt, l, NoCopy, "ok", hist)
                     ELSE Worker("failed", cur, attempt, L, NoCopy, "ok", NoteCopyStop(hist))
                  /\ UNCHANGED <<notify, qh, ignore, ui, bus, watch, scan, q, cancelled, edits, selects, overflows>>

\* Worker loop, after rollbackState and emitStatus: the first failure of a
\* pop goes on to the wait and the retry, the retry's failure to the next Pop.
AfterFailureLoop(a) == "backoff"
\* Worker loop that gives up after the failure of the retry.
AfterFailureFatal(a) == IF a = 1 THEN "backoff" ELSE "stopped"
AfterFailure(a) == IF a = 1 THEN "backoff" ELSE "idle"

\* Worker loop, RunPipeline returned an error: stop when the context is
\* done; else rollbackState and emitStatus, then the 5 s wait (first
\* attempt) or the final emitStatus (retry).
Failed ==
    /\ pc = "failed"
    /\ IF cancelled
       THEN /\ Worker("stopped", cur, attempt, L, cp, copyRes, hist)
            /\ db' = db
       ELSE /\ db' = rollbackState(World, cur).db
            /\ Worker(AfterFailure(attempt), cur, attempt, L, cp, copyRes,
                      [hist EXCEPT !.rollbacks = @ + 1, !.emits = @ + 1])
    /\ UNCHANGED <<notify, qh, ignore, ui, bus, watch, scan, arch, spc, trash, now, nextIno, q, pending, cancelled, edits, selects, overflows>>

\* The select on time.After(5 s) and ctx.Done(), then the second RunPipeline.
Retry ==
    /\ pc = "backoff"
    /\ IF cancelled
       THEN Worker("stopped", cur, attempt, L, cp, copyRes, hist)
       ELSE LET l == GatherAll(World, cur)
            IN Worker(Advance(0, l), cur, 2, l, NoCopy, "none",
                      [hist EXCEPT !.runs = @ + 1, !.waited = TRUE, !.sc0 = Scenario(l.st),
                                   !.g0 = GuardCount(l), !.ev0 = edits + Len(selects)])
    /\ UNCHANGED <<notify, qh, ignore, ui, bus, watch, scan, arch, spc, trash, now, nextIno, db, q, pending, cancelled, edits, selects, overflows>>

\* ---------------------------------------------------------------- environment
\* Number of environment events so far.
Events == edits + Len(selects) + overflows + (IF cancelled THEN 1 ELSE 0)

\* A user or another program writes a file of either tree: new bytes, new
\* mtime; creating it changes the directory.  The watcher sees the event.
ExtWrite(id, p) ==
    /\ edits < MaxEdits /\ Events < MaxEvents /\ now < MaxClock
    /\ LET t == TreeOf(World, id)
       IN /\ IsDirAt(t, Dir(p)) /\ t[p].kind # "dir"
          /\ LET node == File(now + 1, now + 1,
                              IF id = "S" THEN 0 ELSE IF Exists(t, p) THEN t[p].ino ELSE nextIno)
                 t1 == IF Exists(t, p) THEN [t EXCEPT ![p] = node]
                       ELSE Touch([t EXCEPT ![p] = node], Dir(p), now + 1)
                 w1 == [SetTree(World, id, t1) EXCEPT
                           !.now = @ + 1,
                           !.nextIno = IF id = "A" /\ ~Exists(t, p) THEN @ + 1 ELSE @]
             IN SetWorld(WatchEvent(w1, {p}))
    /\ edits' = edits + 1
    /\ UNCHANGED <<notify, qh, ignore, ui, bus, watch, scan, q, cancelled, pc, cur, attempt, L, cp, copyRes, selects, overflows, hist>>

\* A user or another program removes a file of either tree.
ExtRemove(id, p) ==
    /\ edits < MaxEdits /\ Events < MaxEvents /\ now < MaxClock
    /\ LET t == TreeOf(World, id)
       IN /\ Exists(t, p) /\ t[p].kind = "file"
          /\ SetWorld(WatchEvent([SetTree(World, id, Touch([t EXCEPT ![p] = NoFile], Dir(p), now + 1))
                                    EXCEPT !.now = @ + 1], {p}))
    /\ edits' = edits + 1
    /\ UNCHANGED <<notify, qh, ignore, ui, bus, watch, scan, q, cancelled, pc, cur, attempt, L, cp, copyRes, selects, overflows, hist>>

\* Watcher.Start, debounce timer: the pending set is flushed with PushMany
\* in map iteration order.
WatcherFlush ==
    /\ pending # {} /\ pc # "stopped"
    /\ \E order \in Orders(pending) : q' = PushMany(q, order)
    /\ pending' = {}
    /\ UNCHANGED <<notify, qh, ignore, ui, bus, watch, scan, arch, spc, trash, now, nextIno, db, cancelled, pc, cur, attempt, L, cp,
                   copyRes, edits, selects, overflows, hist>>

\* Watcher overflow: the daemon's goroutine runs enqueueAll again.
Overflow ==
    /\ overflows < MaxOverflow /\ Events < MaxEvents /\ pc \notin {"start", "stopped"}
    /\ q' = enqueueAll(q, World)
    /\ overflows' = overflows + 1
    /\ UNCHANGED <<notify, qh, ignore, ui, bus, watch, scan, arch, spc, trash, now, nextIno, db, pending, cancelled, pc, cur, attempt, L, cp,
                   copyRes, edits, selects, hist>>

\* resolveRelPath: names along the parent chain, up to the root or to a
\* parent_ino that has no row.
RECURSIVE resolveRelPath(_, _)
resolveRelPath(es, e) ==
    IF e.parent = 0 \/ GetEntry(es, e.parent) = NoEntry THEN <<e.name>>
    ELSE resolveRelPath(es, GetEntry(es, e.parent)) \o <<e.name>>
pushChildrenToQueue(es, ino, path) == reconcileRows(es, ListChildren(es, ino), path)
pushInodesToQueue(qu, es, ino) ==
    LET e == GetEntry(es, ino)
    IN IF e = NoEntry THEN qu
       ELSE PushPriorityMany(qu, <<resolveRelPath(es, e)>> \o
                (IF e.type = "dir" THEN pushChildrenToQueue(es, ino, resolveRelPath(es, e)) ELSE <<>>))

\* The queue is drained: the worker waits in Pop, nothing is queued and the
\* watcher holds no event; the daemon has not been told to stop.
Drained == pc = "idle" /\ QLen(q) = 0 /\ pending = {} /\ ~cancelled

\* What a request is remembered by: the path of its inode, the flag, the
\* regular files of Archives at or below the path with their bytes, the
\* number of external edits that had happened, whether the queue was
\* drained when the request came, and whether its copy was given up since.
Request(ino, flag) ==
    LET path == resolveRelPath(db.es, GetEntry(db.es, ino))
    IN [path |-> path, flag |-> flag, at |-> edits, quiet |-> Drained, requeued |-> FALSE,
        files |-> {<<f, arch[f].c>> : f \in {r \in Paths : IsPrefix(path, r) /\ arch[r].kind = "file"}}]

\* HandleSelect / HandleDeselect for one inode: SetSelected, then the
\* priority pushes.
HandleSelect(ino, flag) ==
    /\ Len(selects) < MaxSelects /\ Events < MaxEvents /\ pc # "start"
    /\ db' = SetSelected(db, {ino}, flag)
    /\ q' = pushInodesToQueue(q, db'.es, ino)
    /\ selects' = Append(selects, Request(ino, flag))
    /\ UNCHANGED <<notify, qh, ignore, ui, bus, watch, scan, arch, spc, trash, now, nextIno, pending, cancelled, pc, cur, attempt, L, cp,
                   copyRes, edits, overflows, hist>>

\* The context passed to Daemon.Run is cancelled.
Cancel ==
    /\ ~cancelled /\ Events < MaxEvents /\ pc # "start"
    /\ cancelled' = TRUE
    /\ UNCHANGED <<notify, qh, ignore, ui, bus, watch, scan, arch, spc, trash, now, nextIno, db, q, pending, pc, cur, attempt, L, cp,
                   copyRes, edits, selects, overflows, hist>>

Next ==
    \/ Startup
    \/ Pop
    \/ Stop
    \/ RunStage
    \/ CopyRead
    \/ CopyFinish
    \/ Failed
    \/ Retry
    \/ \E id \in {"A", "S"} : ExtWrite(id, G)
    \/ \E id \in {"A", "S"} : ExtRemove(id, G)
    \/ WatcherFlush
    \/ Overflow
    \/ \E e \in db.es : \E flag \in BOOLEAN : HandleSelect(e.ino, flag)
    \/ Cancel

Spec == Init /\ [][Next]_vars

TypeOK ==
    /\ pc \in {"start", "idle", "p0", "p1", "p2", "p3", "p4", "copy", "failed", "backoff", "stopped"}
    /\ now \in 1..MaxRecover
    /\ q.set \subseteq Paths /\ q.hiSet \subseteq Paths

\* ---------------------------------------------------------------- queue callers
\* The EvalQueue under its callers alone: any number of pushers (watcher,
\* scan, handlers) and the one worker that pops.  A pusher inserts under the
\* lock and signals notify after the unlock; Pop tries under the lock and,
\* finding nothing, sleeps in select { done, notify }.
QPaths == {D, G, <<Nm("d", 1)>>}

\* The ledger: what each operation means for a path, whatever the queue does.
LedgerPush(h, p) ==
    IF h.tier[p] # "none" THEN h
    ELSE [h EXCEPT !.tier[p] = "lo", !.stamp[p] = h.seq + 1, !.seq = @ + 1]
LedgerPushPriority(h, p) ==
    IF h.tier[p] = "hi" THEN h
    ELSE [h EXCEPT !.tier[p] = "hi", !.stamp[p] = h.seq + 1, !.seq = @ + 1]
RECURSIVE LedgerPushMany(_, _)
LedgerPushMany(h, ps) ==
    IF ps = <<>> THEN h ELSE LedgerPushMany(LedgerPush(h, Head(ps)), Tail(ps))
LedgerPop(h, p) == [h EXCEPT !.tier[p] = "none", !.stamp[p] = 0]

\* A caller begins an operation; inserted says whether it goes on to signal.
Called(h, inserted) ==
    [h EXCEPT !.ops = @ + 1, !.sends = IF inserted THEN @ + 1 ELSE @]
QFrame == UNCHANGED <<ignore, ui, bus, watch, scan, arch, spc, trash, now, nextIno, db, pending, pc, cur, attempt, L, cp,
                      copyRes, edits, selects, overflows, hist>>

QPush(p) ==
    /\ qh.ops < MaxQOps
    /\ q' = Push(q, p)
    /\ qh' = Called(LedgerPush(qh, p), q' # q)
    /\ UNCHANGED <<notify, cancelled>> /\ QFrame

QPushPriority(p) ==
    /\ qh.ops < MaxQOps
    /\ q' = PushPriority(q, p)
    /\ qh' = Called(LedgerPushPriority(qh, p), q' # q)
    /\ UNCHANGED <<notify, cancelled>> /\ QFrame

QPushMany(ps) ==
    /\ qh.ops < MaxQOps
    /\ q' = PushMany(q, ps)
    /\ qh' = Called(LedgerPushMany(qh, ps), q' # q)
    /\ UNCHANGED <<notify, cancelled>> /\ QFrame

\* select { case q.notify <- struct{}{}: default: } of a pusher.
QNotify ==
    /\ qh.sends > 0
    /\ notify' = Signal(notify)
    /\ qh' = [qh EXCEPT !.sends = @ - 1]
    /\ UNCHANGED <<q, cancelled>> /\ QFrame

\* The worker calls Pop.
QPopCall ==
    /\ qh.pop = "none" /\ qh.ops < MaxQOps
    /\ qh' = [qh EXCEPT !.ops = @ + 1, !.pop = "try", !.slept = FALSE]
    /\ UNCHANGED <<q, notify, cancelled>> /\ QFrame

\* Pop, one round under the lock: return a path or go to sleep.
QPopTry ==
    /\ qh.pop = "try"
    /\ q' = PopQueue(q)
    /\ IF PopReady(q)
       THEN qh' = [LedgerPop(qh, PopPath(q)) EXCEPT
                      !.pop = "none",
                      !.ret = [path |-> PopPath(q), ok |-> TRUE,
                               tier |-> qh.tier[PopPath(q)], stamp |-> qh.stamp[PopPath(q)]]]
       ELSE qh' = [qh EXCEPT !.pop = "wait", !.slept = TRUE]
    /\ UNCHANGED <<notify, cancelled>> /\ QFrame

\* Pop asleep, case <-q.notify: take the token and try again.
QPopWake ==
    /\ qh.pop = "wait" /\ notify > 0
    /\ notify' = 0
    /\ qh' = [qh EXCEPT !.pop = "try"]
    /\ UNCHANGED <<q, cancelled>> /\ QFrame

\* Pop asleep, case <-done: return ("", false).
QPopDone ==
    /\ qh.pop = "wait" /\ cancelled
    /\ qh' = [qh EXCEPT !.pop = "none", !.ret = NoReturn]
    /\ UNCHANGED <<q, notify, cancelled>> /\ QFrame

QCancel ==
    /\ ~cancelled
    /\ cancelled' = TRUE
    /\ UNCHANGED <<q, notify, qh>> /\ QFrame

QNext ==
    \/ \E p \in QPaths : QPush(p)
    \/ \E p \in QPaths : QPushPriority(p)
    \/ \E a, b \in QPaths : QPushMany(<<a, b>>)
    \/ QNotify
    \/ QPopCall
    \/ QPopTry
    \/ QPopWake
    \/ QPopDone
    \/ QCancel

\* The queue of a daemon that has just been constructed.
QInit == Init /\ \A p \in Paths : ~Exists(spc, p)
QSpec == QInit /\ [][QNext]_vars

\* The goroutines run: a pusher that has unlocked goes on to its send, and a
\* Pop in progress takes its next step when it can.
QLive ==
    /\ QSpec
    /\ WF_vars(QNotify) /\ WF_vars(QPopTry) /\ WF_vars(QPopWake \/ QPopDone)

\* ---------------------------------------------------------------- properties
\* Fixed points (1)-(5) of a path, on the state RunPipeline would gather.
FixedPoint(p) ==
    LET l == GatherAll(World, p)
    IN /\ l.st.ADisk = l.st.ADb
       /\ l.st.SDisk = l.st.SDb
       /\ (l.entry # NoEntry /\ l.entry.type = "file") => (l.entry.sel = l.st.SDisk)
       /\ ~l.st.ADirty /\ ~l.st.SDirty
       /\ l.sv # NoView => l.sv.synced = l.sM

\* C1: once the queue is drained, every path satisfies the fixed points
\* (1)-(5): Archives and its row agree, Spaces and its view row agree, a file
\* is selected iff it is on Spaces, nothing is dirty, synced_mtime is the
\* Spaces mtime.
C1_FixedPointsWhenDrained == Drained => \A p \in Paths : FixedPoint(p)

LastRequest == selects[Len(selects)]
\* The last request came to a drained engine and stands: no external edit
\* and no overflow walk since.
RequestStands ==
    selects # <<>> /\ LastRequest.quiet /\ LastRequest.at = edits /\ overflows = 0

\* C3: after a select request and a drain, every file at or below the
\* requested path is on Spaces with the mtime it has on Archives.
C3_SelectedMaterialized ==
    (Drained /\ RequestStands /\ LastRequest.flag /\ edits = 0) =>
        \A f \in LastRequest.files :
            Exists(arch, f[1]) /\ Exists(spc, f[1]) /\ spc[f[1]].m = arch[f[1]].m

\* C4: after a deselect request and a drain, no file at or below the
\* requested path is on Spaces, and each is on Archives with the bytes it had.
C4_DeselectedRemoved ==
    (Drained /\ RequestStands /\ ~LastRequest.flag) =>
        \A f \in LastRequest.files :
            ~Exists(spc, f[1]) /\ Exists(arch, f[1]) /\ arch[f[1]].c = f[2]

\* Bytes the catalog does not record as synced: a Spaces file without a
\* spaces_view row or with another mtime than synced_mtime, an Archives file
\* without a row or with another mtime than the row's.
UnsyncedBytes ==
    {spc[f].c : f \in {r \in Paths : spc[r].kind = "file" /\
                        (lookupView(db, r) = NoView \/ lookupView(db, r).synced # spc[r].m)}}
    \cup
    {arch[f].c : f \in {r \in Paths : arch[r].kind = "file" /\
                        (lookupEntry(db, r) = NoEntry \/ lookupEntry(db, r).mtime # arch[r].m)}}
TrashBytes(tr) == UNION {x.bytes : x \in tr}

\* C2: no step of the engine (stage, copy, rollback, retry) loses bytes
\* written on either side: bytes held by a file the catalog does not record
\* as synced are, after the step, still in Archives, in Spaces or in the trash.
C2_NoWrittenBytesLost ==
    [][edits' = edits =>
          UnsyncedBytes \subseteq (AllBytes(arch') \cup AllBytes(spc') \cup TrashBytes(trash'))]_vars

\* C5: when the conflict branch of P2 is over, Archives has exactly one
\* path more than before, the conflict name, a file holding the bytes
\* Archives had, and the original name holds the bytes Spaces had.
C5_ConflictOutcome ==
    [][(pc = "copy" /\ cp.site = "p2c" /\ pc' # "copy") =>
          /\ {x \in Paths : Exists(arch', x)} = cp.had \cup {cp.cn}
          /\ arch'[cp.cn].kind = "file" /\ arch'[cp.cn].c = cp.a0.c
          /\ arch'[cur].kind = "file" /\ arch'[cur].c = cp.c0]_vars

\* C6: a pass whose gather finds scenario 31 writes nothing: with no
\* external edit and no request in the step, every step taken while such a
\* pass is the current or the last one leaves the catalog, Archives, Spaces
\* and the trash as they are.
C6_SyncedPassIsNoOp ==
    [][(hist'.sc0 = 31 /\ hist'.runs >= 1 /\ edits' = edits /\ selects' = selects) =>
          UNCHANGED <<db, arch, spc, trash>>]_vars
C6_Witness == pc = "idle" /\ hist.sc0 = 31 /\ hist.runs = 1 /\ hist.emits = 1

\* The tree the copy in flight writes to, and the one it reads from.
CopyDst(t1, t2) == IF cp.src = "A" THEN t2 ELSE t1
CopySrc(t1, t2) == IF cp.src = "A" THEN t1 ELSE t2
C8_EndsPassNormally ==
    copyRes \in {"SourceModified", "Requeued"} => (hist.rollbacks = 0 /\ pc # "backoff")

\* C9: right after rollbackState, if the path has a row, selected says
\* whether the Spaces path exists, a spaces_view row exists exactly when it
\* does, and a row made by the rollback carries the Spaces mtime.
C9_RollbackMatchesSpaces ==
    [][(pc = "failed" /\ pc' \in {"backoff", "idle"}) =>
          LET e == lookupEntry(db', cur)
              v == lookupView(db', cur)
          IN e # NoEntry =>
                /\ e.sel = Exists(spc', cur)
                /\ (v # NoView) = Exists(spc', cur)
                /\ (v # NoView /\ lookupView(db, cur) = NoView) => v.synced = spc'[cur].m]_vars
\* The rollback has run, after a SafeCopy error, on a path that has a row
\* and is missing on Spaces.
C9_Witness ==
    /\ pc = "backoff" /\ hist.rollbacks = 1
    /\ lookupEntry(db, cur) # NoEntry /\ ~Exists(spc, cur) /\ copyRes # "none"

\* C10: a failed pass is followed by rollback, one status, the wait and one
\* retry: RunPipeline runs at most twice per pop, the second time only after
\* a rollback and the wait; a failed retry is followed by rollback and the
\* statuses, the worker goes back to Pop and the queue is left as it is.
C10_RetryOnce ==
    [][/\ hist'.runs <= 2 /\ hist'.rollbacks <= hist'.runs
       /\ pc' = "backoff" => (attempt' = 1 /\ hist'.runs = 1 /\ hist'.rollbacks = 1 /\ hist'.emits = 1)
       /\ hist'.runs = 2 => (hist'.waited /\ hist'.rollbacks >= 1)
       /\ (pc = "failed" /\ attempt = 2 /\ pc' # "failed" /\ ~cancelled) =>
             (/\ pc' = "idle" /\ q' = q
              /\ db' = rollbackState(World, cur).db
              /\ hist'.rollbacks = 2 /\ hist'.emits = hist.emits + 2)]_vars
C10_Witness == pc = "idle" /\ hist.runs = 2 /\ hist.rollbacks = 2 /\ hist.waited

\* A call of Pop returns a path in this step.
PopReturns == qh.pop = "try" /\ qh'.pop = "none" /\ qh'.ret.ok

\* C11: pop never returns a path pending only in the normal tier while some
\* path pushed at priority is still pending: whenever Pop returns and the
\* ledger has a path in the priority tier, the returned path is of that tier.
C11_PriorityFirst ==
    [][(PopReturns /\ \E r \in Paths : qh.tier[r] = "hi")
          => qh.tier[qh'.ret.path] = "hi"]_vars
\* Pop returned a priority path while an earlier normal push is still pending.
C11_Witness ==
    /\ qh.pop = "none" /\ qh.ret.ok /\ qh.ret.tier = "hi"
    /\ \E r \in Paths : qh.tier[r] = "lo" /\ qh.stamp[r] < qh.ret.stamp

Occurrences(order, p) == Cardinality({i \in 1..Len(order) : order[i] = p})
Slots(qu, p) == (IF p \in qu.hiSet THEN 1 ELSE 0) + (IF p \in qu.set THEN 1 ELSE 0)
OneSlot(qu, h) ==
    \A p \in Paths :
        /\ Slots(qu, p) = IF h.tier[p] = "none" THEN 0 ELSE 1
        /\ Occurrences(qu.hiOrder, p) = IF p \in qu.hiSet THEN 1 ELSE 0
        /\ p \in qu.set => Occurrences(qu.order, p) >= 1

C13_FifoWithinTier ==
    [][PopReturns =>
          \A r \in Paths \ {qh'.ret.path} :
              qh.tier[r] = qh.tier[qh'.ret.path] => qh.stamp[qh'.ret.path] < qh.stamp[r]]_vars

\* C14: has(path) is true exactly from the push that inserted the path until
\* the pop that returns it.
C14_HasIffPending == \A p \in Paths : Has(q, p) <=> qh.tier[p] # "none"
\* A path pending in the priority tier only, after a Pop took another one.
C14_Witness ==
    /\ qh.ret.ok /\ ~Has(q, qh.ret.path)
    /\ \E p \in Paths : qh.tier[p] = "hi" /\ Has(q, p)

\* A call of Pop returns in this step, with a path or without.
PopEnds == qh.pop \in {"try", "wait"} /\ qh'.pop = "none"

\* C15: Pop blocks exactly while nothing is pending and cancel has not fired.
\* It stays asleep while notify is empty and ctx is not done; it returns a
\* path only if that path was pending and returns false only after cancel;
\* a path inserted while Pop goes to sleep is not missed (the token is in
\* notify or its pusher is about to send it); and a sleeping Pop returns once
\* a path is pending or cancel has fired.
C15_PopBlocksUntilPendingOrCancel ==
    /\ [][/\ (qh.pop = "wait" /\ notify = 0 /\ ~cancelled) => qh'.pop = "wait"
          /\ PopEnds => IF qh'.ret.ok THEN Has(q, qh'.ret.path) /\ ~Has(q', qh'.ret.path)
                        ELSE cancelled /\ q' = q
          /\ (qh'.pop = "wait" /\ QLen(q') > 0) => (notify' = 1 \/ qh'.sends > 0 \/ cancelled')]_vars
    /\ (qh.pop = "wait" /\ QLen(q) > 0) ~> (qh.pop = "none")
    /\ (qh.pop = "wait" /\ cancelled) ~> (qh.pop = "none")
\* A Pop that went to sleep on an empty queue was woken by a push and
\* returned the path.
C15_Witness == qh.pop = "none" /\ qh.slept /\ qh.ret.ok /\ ~cancelled

\* ---------------------------------------------------------------- catalog and handlers
\* The catalog under the calls the engine makes on it: p1 registers a path
\* that has no row below a parent path that resolves, p0 deletes the row of
\* a path lost on both sides, the handlers select and deselect, the worker
\* pops.  Rows are named d or g at any depth; a new row takes the smallest
\* inode number no row holds, and the catalog is followed up to a request
\* and the pops after it.
RowNames == {Nm("d", 0), Nm("g", 0)}
RowTypes == {"dir", "file"}

\* A row lookupDB can reach from the virtual root.
RECURSIVE Rooted(_, _)
Rooted(es, e) ==
    e # NoEntry /\ (e.parent = 0 \/ Rooted(es \ {e}, GetEntry(es \ {e}, e.parent)))

SFrame == UNCHANGED <<ignore, ui, bus, watch, scan, arch, spc, trash, now, nextIno, pending, cancelled, pc, cur, attempt, L, cp,
                      copyRes, edits, overflows, hist, notify, qh>>

\* p1 on a path whose parent resolves and that has no row yet.  The type is
\* the one found on disk at that time; no later stage rewrites it.
SRegister(ino, parent, name, type, sel) ==
    /\ selects = <<>>
    /\ GetEntry(db.es, ino) = NoEntry
    /\ \A j \in 1..(ino - 1) : GetEntry(db.es, j) # NoEntry
    /\ parent = 0 \/ Rooted(db.es, GetEntry(db.es, parent))
    /\ GetEntryByPath(db.es, parent, name) = NoEntry
    /\ db' = UpsertEntry(db, Entry(ino, parent, name, type, 1, sel))
    /\ UNCHANGED <<q, selects>> /\ SFrame

\* p0 on a path gone from both disks: DeleteEntry of its row alone.
SDelete(ino) ==
    /\ selects = <<>>
    /\ Rooted(db.es, GetEntry(db.es, ino))
    /\ db' = DeleteEntry(db, ino)
    /\ UNCHANGED <<q, selects>> /\ SFrame

RECURSIVE pushInodesSeq(_, _, _)
pushInodesSeq(qu, es, inos) ==
    IF inos = <<>> THEN qu
    ELSE pushInodesSeq(pushInodesToQueue(qu, es, Head(inos)), es, Tail(inos))
SeqSet(sq) == {sq[i] : i \in 1..Len(sq)}

\* HandleSelect / HandleDeselect with a list of inodes; the request is
\* remembered with its outcome.
SSelect(inos, flag) ==
    /\ Len(selects) < MaxSelects
    /\ db' = SetSelected(db, SeqSet(inos), flag)
    /\ q' = pushInodesSeq(q, db'.es, inos)
    /\ selects' = Append(selects, [inos |-> inos, flag |-> flag, ok |-> TRUE])
    /\ SFrame

\* SetSelected returns an error: the deferred tx.Rollback undoes the
\* updates made so far and the handler answers 500 without pushing.
SSelectFail(inos, flag) ==
    /\ Len(selects) < MaxSelects
    /\ selects' = Append(selects, [inos |-> inos, flag |-> flag, ok |-> FALSE])
    /\ UNCHANGED <<db, q>> /\ SFrame

\* The worker takes the next path.
SPop ==
    /\ PopReady(q)
    /\ q' = PopQueue(q)
    /\ UNCHANGED <<db, selects>> /\ SFrame

Inodes == 1..MaxInode
Requests == {<<i>> : i \in Inodes} \cup {<<i, j>> : i \in Inodes, j \in Inodes}

SNext ==
    \/ \E i \in Inodes, par \in 0..MaxInode, n \in RowNames, t \in RowTypes, sel \in BOOLEAN :
           SRegister(i, par, n, t, sel)
    \/ \E i \in Inodes : SDelete(i)
    \/ \E r \in Requests, flag \in BOOLEAN : SSelect(r, flag)
    \/ \E r \in Requests, flag \in BOOLEAN : SSelectFail(r, flag)
    \/ SPop

StoreSpec == QInit /\ [][SNext]_vars

\* The rows reachable from a set of inodes through parent_ino.
RECURSIVE DescendantsOf(_, _)
DescendantsOf(es, inos) ==
    LET below == {e.ino : e \in {x \in es : x.parent \in inos}}
    IN IF below \subseteq inos THEN inos ELSE DescendantsOf(es, inos \cup below)

\* C16: a select or deselect request commits SetSelected before it enqueues,
\* and pushes at priority the path of every entry whose flag it changed.  On
\* the step of a request that succeeded, every row lookupDB can reach whose
\* flag changed has its path in the priority tier, and every path the request
\* put there belongs to a row that carries the committed flag.
C16_SelectCommitsThenPushes ==
    [][(selects' # selects /\ selects'[Len(selects')].ok) =>
          /\ \A e \in db.es :
                 (Rooted(db.es, e) /\ GetEntry(db'.es, e.ino).sel # e.sel)
                     => resolveRelPath(db.es, e) \in q'.hiSet
          /\ \A e \in db'.es :
                 (Rooted(db'.es, e) /\ resolveRelPath(db'.es, e) \in q'.hiSet \ q.hiSet)
                     => e.sel = selects'[Len(selects')].flag]_vars

\* C17: SetSelected(inodes, flag) sets the flag on each given inode and on
\* every descendant reachable through parent_ino and changes nothing else;
\* when it fails no row has changed.
C17_SetSelectedWholeSubtree ==
    [][selects' # selects =>
          LET r == selects'[Len(selects')]
          IN IF r.ok
             THEN db'.es = {IF e.ino \in DescendantsOf(db.es, SeqSet(r.inos))
                            THEN [e EXCEPT !.sel = r.flag] ELSE e : e \in db.es}
             ELSE db' = db]_vars

\* ---------------------------------------------------------------- hidden paths
\* The walks and the watcher over a Spaces root that holds the trash
\* directory, with the .syncignore of the installation empty or ".*".
IFrame == UNCHANGED <<nextIno, db, cancelled, pc, cur, attempt, L, cp, copyRes, edits, selects,
                      overflows, hist, notify, qh, ignore, ui, bus, watch, scan>>

\* Watcher.Start, event case, for any name: hidden names are skipped.
WatcherEvent(pend, path) ==
    IF HasDotPrefix(Base(path)) THEN pend ELSE pend \cup {path}

\* The files SoftDelete has put below <spaces>/.trash/<date>/, in name order.
TrashItem(x) == <<x.name[1], x.name[2], x.n>>
RECURSIVE TrashItems(_)
TrashItems(tr) ==
    IF tr = {} THEN <<>>
    ELSE LET x == CHOOSE y \in tr : \A z \in tr \ {y} :
                      NameLess(y.name, z.name) \/ (y.name = z.name /\ y.n < z.n)
         IN <<<<TrashDir, DateDir, TrashItem(x)>>>> \o TrashItems(tr \ {x})

\* walkAndEnqueue over <spaces>/.trash: WalkDir skips the directory when
\* IsIgnored matches its name and pushes every path below it otherwise.
walkTrash(tr, ig) ==
    IF tr = {} \/ IsIgnored(ig, TrashDir, TRUE) THEN <<>>
    ELSE <<<<TrashDir>>, <<TrashDir, DateDir>>>> \o TrashItems(tr)

IInit ==
    /\ arch = InitArch /\ spc = CHOOSE t \in InitSpcs : Exists(t, G)
    /\ trash = {} /\ now = 1 /\ nextIno = 3
    /\ db = [es |-> {}, vs |-> {}]
    /\ q = NewEvalQueue /\ pending = {} /\ cancelled = FALSE
    /\ pc = "start" /\ cur = <<>> /\ attempt = 0 /\ L = NoLocals /\ cp = NoCopy
    /\ copyRes = "none" /\ edits = 0 /\ selects = <<>> /\ overflows = 0
    /\ hist = NewHist /\ notify = 0 /\ qh = NewCallers
    /\ ignore \in {{}, {DotPattern}}
    /\ ui = NoLabel
    /\ bus = NewEventBus
    /\ watch = NoWatch
    /\ scan = NoScan

\* p3 on an unselected path that is on Spaces: SoftDelete.  Its MkdirAll
\* creates <spaces>/.trash, which the watcher sees as an event of that name.
ISoftDelete(p) ==
    /\ Exists(spc, p) /\ now < MaxClock /\ Cardinality(trash) < MaxTrash
    /\ LET w == SoftDelete(World, p)
       IN /\ spc' = w.spc /\ trash' = w.trash /\ now' = w.now
          /\ pending' = WatcherEvent(w.pending, <<TrashDir>>)
    /\ UNCHANGED <<arch, q>> /\ IFrame

\* The user puts the file back on Spaces.
IUserWrite ==
    /\ ~Exists(spc, G) /\ now < MaxClock /\ Cardinality(trash) < MaxTrash
    /\ spc' = [spc EXCEPT ![D] = DirNode(now + 1, 0), ![G] = File(now + 1, now + 1, 0)]
    /\ now' = now + 1
    /\ pending' = WatcherEvent(WatcherEvent(pending, D), G)
    /\ UNCHANGED <<arch, trash, q>> /\ IFrame

\* The debounce timer fires.
IFlush ==
    /\ pending # {}
    /\ \E o \in Orders(pending) : q' = PushMany(q, o)
    /\ pending' = {}
    /\ UNCHANGED <<arch, spc, trash, now>> /\ IFrame

\* enqueueAll at start-up or after an overflow: Archives, then Spaces with
\* its trash directory (".trash" sorts before every other name of the model).
\* The catalog is empty here, so reconcileChildren pushes nothing.
IEnqueueAll ==
    /\ q' = PushMany(PushMany(q, walkAndEnqueue(arch)),
                     walkTrash(trash, ignore) \o walkAndEnqueue(spc))
    /\ UNCHANGED <<arch, spc, trash, now, pending>> /\ IFrame

\* The worker takes the next path.
IPop ==
    /\ PopReady(q)
    /\ q' = PopQueue(q)
    /\ UNCHANGED <<arch, spc, trash, now, pending>> /\ IFrame

INext ==
    \/ \E p \in {D, G} : ISoftDelete(p)
    \/ IUserWrite
    \/ IFlush
    \/ IEnqueueAll
    \/ IPop

IgnoreSpec == IInit /\ [][INext]_vars

HiddenPath(p) == \E i \in 1..Len(p) : HasDotPrefix(p[i])

\* C18: a path with a leading "." in any component, which includes
\* everything under <spaces>/.trash, is never enqueued by the watcher or by
\* the start-up/overflow walk: no such path is in the debounce set or in
\* either tier of the queue.
C18_HiddenNeverEnqueued ==
    \A p \in pending \cup q.set \cup q.hiSet : ~HiddenPath(p)

\* ---------------------------------------------------------------- classifier callers
\* RunPipeline and the listing handler classify a path: ComputeState on the
\* row, its view and the two stat results, then State.UIStatus for the label.
Mtimes == 0..MaxMtime
EntryInputs ==
    {NoEntry} \cup {Entry(1, 0, Nm("d", 0), "file", m, sel) : m \in Mtimes \ {0}, sel \in BOOLEAN}
ViewInputs == {NoView} \cup {View(1, m) : m \in Mtimes \ {0}}

UFrame == UNCHANGED <<arch, spc, trash, now, nextIno, db, q, pending, cancelled, pc, cur, attempt,
                      L, cp, copyRes, edits, selects, overflows, hist, notify, qh, ignore, bus, watch, scan>>

Classify(entry, sv, aM, sM) ==
    /\ LET state == ComputeState(entry, sv, aM, sM)
       IN ui' = [called |-> TRUE, entry |-> entry, sv |-> sv, aM |-> aM, sM |-> sM,
                 state |-> state, scenario |-> Scenario(state), status |-> UIStatus(state)]
    /\ UFrame

UNext == \E entry \in EntryInputs, sv \in ViewInputs, aM \in Mtimes, sM \in Mtimes :
            Classify(entry, sv, aM, sM)

ClassSpec == QInit /\ [][UNext]_vars

\* The label the table gives to a scenario number.
TableLabel(sc) ==
    IF sc = 1 THEN ""
    ELSE IF sc \in 2..4 THEN "untracked"
    ELSE IF sc \in 5..8 THEN "lost"
    ELSE IF sc \in 9..14 THEN "recovering"
    ELSE IF sc \in {15, 16} THEN "archived"
    ELSE IF sc \in {17, 18} THEN "syncing"
    ELSE IF sc \in {19, 20, 21, 22, 23, 25, 26} THEN "repairing"
    ELSE IF sc \in {24, 30, 34} THEN "conflict"
    ELSE IF sc \in 27..29 THEN "removing"
    ELSE IF sc = 31 THEN "synced"
    ELSE IF sc \in {32, 33} THEN "updating"
    ELSE "none"

\* C19: the UI label of a classified item is the label the table gives to
\* its scenario number, for all 34 scenarios (1 -> empty; 2-4 -> untracked;
\* 5-8 -> lost; 9-14 -> recovering; 15, 16 -> archived; 17, 18 -> syncing;
\* 19-23, 25, 26 -> repairing; 24, 30, 34 -> conflict; 27-29 -> removing;
\* 31 -> synced; 32, 33 -> updating).
C19_LabelTable ==
    ui.called => (ui.scenario \in 1..34 /\ ui.status = TableLabel(ui.scenario))

\* ---------------------------------------------------------------- synced
\* The classification of a path as the listing handler makes it: the row and
\* view of the catalog with the stat results of both disks, at this moment.
StateOf(p) ==
    ComputeState(lookupEntry(db, p), lookupView(db, p), StatM(arch, p), StatM(spc, p))
SyncedFile(p) == Scenario(StateOf(p)) = 31 /\ lookupEntry(db, p).type = "file"

\* C20: whenever a file path is classified as synced (scenario 31), the
\* Archives and the Spaces copy have the same content and the same mtime,
\* Entry.mtime is the Archives mtime and SpacesView.synced_mtime is the
\* Spaces mtime.
C20_SyncedAgrees ==
    \A p \in Paths : SyncedFile(p) =>
        /\ arch[p].kind = "file" /\ spc[p].kind = "file"
        /\ arch[p].c = spc[p].c
        /\ arch[p].m = spc[p].m
        /\ lookupEntry(db, p).mtime = arch[p].m
        /\ lookupView(db, p).synced = spc[p].m

\* ---------------------------------------------------------------- event bus
\* The EventBus under its callers: the worker publishes (emitStatus), SSE
\* handlers subscribe, read their channel and unsubscribe.  Publish holds the
\* read lock for its whole loop, so Subscribe and Unsubscribe wait for it;
\* the readers of the channels do not.
BufCap == 16

BFrame == UNCHANGED <<arch, spc, trash, now, nextIno, db, q, pending, cancelled, pc, cur, attempt,
                      L, cp, copyRes, edits, selects, overflows, hist, notify, qh, ignore, ui, watch, scan>>

\* select { case ch <- event: default: } with the newest event kept and the
\* oldest given up when the buffer is full.
SendOverwrite(buf, e) == IF Len(buf) < BufCap THEN Append(buf, e) ELSE Append(Tail(buf), e)
\* select { case ch <- event: default: } on a channel of capacity 16.
Send(buf, e) == IF Len(buf) < BufCap THEN Append(buf, e) ELSE buf

\* Subscribe: a new channel joins the map.
Subscribe(c) ==
    /\ bus.pc = "idle" /\ ~bus.clients[c].on /\ c \notin bus.closing /\ bus.subs < MaxSubs
    /\ bus' = [bus EXCEPT !.clients[c] = [on |-> TRUE, buf |-> <<>>, got |-> bus.n],
                          !.subs = @ + 1]
    /\ BFrame

\* An Unsubscribe that takes no lock: it never waits.
LockFree(b) == TRUE
\* mu.Lock(): the writer gets the lock when no Publish holds the read lock.
Lock(b) == b.pc = "idle"
\* Unsubscribe, under the lock: the channel leaves the map.
Unsubscribe(c) ==
    /\ Lock(bus) /\ bus.clients[c].on
    /\ bus' = [bus EXCEPT !.clients[c] = NoChannel, !.closing = @ \cup {c}]
    /\ BFrame
\* Unsubscribe, after the unlock: close(ch).
Close(c) ==
    /\ c \in bus.closing
    /\ bus' = [bus EXCEPT !.closing = @ \ {c}]
    /\ BFrame

\* Publish, entry: the read lock is taken and the range over the map starts.
PublishStart ==
    /\ bus.pc = "idle" /\ bus.n < MaxPublish
    /\ bus' = [bus EXCEPT !.pc = "loop", !.n = @ + 1,
                          !.todo = {c \in Clients : bus.clients[c].on}]
    /\ BFrame

\* Publish, one round of the loop: the non-blocking send to the next channel
\* of the map, in the map's iteration order.
PublishSend(c) ==
    /\ bus.pc = "loop" /\ c \in bus.todo
    /\ bus' = [bus EXCEPT !.clients[c].buf = Send(@, bus.n), !.todo = @ \ {c}]
    /\ BFrame

\* Publish, return: the read lock is released.
PublishEnd ==
    /\ bus.pc = "loop" /\ bus.todo = {}
    /\ bus' = [bus EXCEPT !.pc = "idle"]
    /\ BFrame

\* The SSE handler of a client takes the next event from its channel.
Receive(c) ==
    /\ bus.clients[c].on /\ bus.clients[c].buf # <<>>
    /\ bus' = [bus EXCEPT !.clients[c].got = Head(bus.clients[c].buf),
                          !.clients[c].buf = Tail(@)]
    /\ BFrame

BNext ==
    \/ \E c \in Clients : Subscribe(c)
    \/ \E c \in Clients : Unsubscribe(c)
    \/ \E c \in Clients : Close(c)
    \/ PublishStart
    \/ \E c \in Clients : PublishSend(c)
    \/ PublishEnd
    \/ \E c \in Clients : Receive(c)

BusSpec == QInit /\ [][BNext]_vars
\* The publisher is scheduled; no reader has to be.
BusLive == BusSpec /\ WF_vars(\E c \in Clients : PublishSend(c)) /\ WF_vars(PublishEnd)

\* The Publish in progress makes its send to client c in this step.
SendStep(c) == bus.pc = "loop" /\ c \in bus.todo /\ bus'.todo = bus.todo \ {c}
Increasing(buf) == \A i \in 1..(Len(buf) - 1) : buf[i] < buf[i + 1]

\* What a step of Publish does to the channels.
PublishStep ==
    /\ \A c \in Clients : SendStep(c) =>
          (/\ bus'.clients[c].buf =
                 (IF Len(bus.clients[c].buf) < BufCap
                  THEN Append(bus.clients[c].buf, bus.n) ELSE bus.clients[c].buf)
           /\ \A d \in Clients \ {c} : bus'.clients[d] = bus.clients[d])
    /\ (bus.pc = "idle" /\ bus'.pc = "loop") =>
          bus'.todo = {c \in Clients : bus.clients[c].on}
    /\ (bus.pc = "loop" /\ bus'.pc = "idle") => bus.todo = {}
InOrder ==
    \A c \in Clients :
        /\ Len(bus.clients[c].buf) <= BufCap
        /\ Increasing(bus.clients[c].buf)
        /\ (bus.clients[c].buf # <<>> => bus.clients[c].got < Head(bus.clients[c].buf))

\* C21: publishing never blocks the publisher.  Each subscriber's buffer
\* holds at most 16 events; a Publish visits every subscriber; its send to a
\* subscriber with a full buffer leaves that buffer as it is and touches no
\* other subscriber, its send to a subscriber with room appends the event;
\* every buffer holds events in publish order, all later than the last one
\* its reader took; and a Publish that has started returns, whether or not
\* any reader ever reads.
C21_PublishNeverBlocks ==
    /\ [][PublishStep]_vars
    /\ []InOrder
    /\ (bus.pc = "loop") ~> (bus.pc = "idle")
\* An event has been dropped for a subscriber whose buffer is full and
\* delivered to the other one.
C21_Witness ==
    /\ bus.pc = "idle"
    /\ \E c, d \in Clients :
          /\ bus.clients[c].on /\ Len(bus.clients[c].buf) = BufCap
          /\ bus.clients[c].buf[BufCap] < bus.n
          /\ bus.clients[d].on /\ bus.clients[d].buf # <<>>
          /\ bus.clients[d].buf[Len(bus.clients[d].buf)] = bus.n

\* ---------------------------------------------------------------- worker loop
\* C22: no error is fatal to the daemon.  The worker has stopped only if
\* the context was cancelled; without cancellation a failed pass is followed
\* by the rollback and then the wait or the next Pop, the wait by the retry,
\* and neither touches the queue, so every pending path stays pending; from
\* Pop the loop is left only when the context is done and Pop has no path to
\* hand out.
C22_NoErrorIsFatal ==
    /\ [](pc = "stopped" => cancelled)
    /\ [][(pc = "failed" /\ ~cancelled /\ pc' # pc) =>
              (pc' \in {"backoff", "idle"} /\ q' = q)]_vars
    /\ [][(pc = "backoff" /\ ~cancelled /\ pc' # pc) =>
              (pc' # "stopped" /\ q' = q /\ hist'.runs = 2)]_vars
    /\ [][(pc = "idle" /\ pc' = "stopped") => (cancelled /\ ~PopReady(q))]_vars
\* Both attempts on a path have failed, the worker is back at Pop and
\* another path is pending.
C22_Witness ==
    pc = "idle" /\ hist.rollbacks = 2 /\ ~cancelled /\ QLen(q) > 0 /\ now + 1 < MaxClock

\* This step takes a path from the queue.
TakesPath == \E p \in Paths : Has(q, p) /\ ~Has(q', p)

\* C23: once the cancel signal has fired the worker takes no further path
\* from the queue: it ends the pass it is in and stops; a SafeCopy in flight
\* fails at its next round, leaves dst as it was and no tmp file, and the
\* worker stops without a rollback.
C23_CancelStopsAfterCurrentPath ==
    [][cancelled =>
          /\ ~TakesPath
          /\ (pc = "copy" /\ edits' = edits) =>
                (/\ pc' = "failed" /\ copyRes' = "Cancelled" /\ cp' = NoCopy
                 /\ CopyDst(arch', spc')[cur] = CopyDst(arch, spc)[cur])
          /\ (pc = "failed" /\ pc' # pc) => (pc' = "stopped" /\ db' = db)]_vars

\* C24: rollback never overrides the user's selection.  The last request
\* selected a file, the copy to Spaces it led to was given up as re-queued,
\* Archives still holds the file and nothing was edited since the request:
\* once the queue is drained the row is still selected and the file is on
\* Spaces.
C24_SelectionSurvivesRequeue ==
    (/\ Drained /\ selects # <<>>
     /\ LastRequest.flag /\ LastRequest.requeued /\ LastRequest.at = edits
     /\ arch[LastRequest.path].kind = "file")
    => (lookupEntry(db, LastRequest.path).sel /\ Exists(spc, LastRequest.path))

StagePcs == {"p0", "p1", "p2", "p3", "p4"}
PcNo(x) == IF x = "p0" THEN 0 ELSE IF x = "p1" THEN 1 ELSE IF x = "p2" THEN 2
           ELSE IF x = "p3" THEN 3 ELSE 4
\* The stage that ends in this step, when the pass goes on to another one.
EndingStage == IF pc = "copy" THEN SiteStage(cp.site) ELSE PcNo(pc)
WorldAfter == [arch |-> arch', spc |-> spc', trash |-> trash', now |-> now',
               nextIno |-> nextIno', db |-> db', pending |-> pending']

\* C25: within one pass the stages run in the order P0, P1, P2, P3, P4, and
\* the stage that follows another one has its guard evaluated on a state
\* whose seven variables were all re-read, from the catalog and from both
\* disks, after the earlier stage finished.
C25_StagesInOrderOnFreshState ==
    [][(pc \in StagePcs \cup {"copy"} /\ pc' \in StagePcs /\ pc' # pc) =>
          /\ PcNo(pc') > EndingStage
          /\ L'.st = GatherAll(WorldAfter, cur).st]_vars
\* ---- progress of a pass ----

\* The path of the pass that a step ends.
PassPath == IF pc = "idle" THEN PopPath(q) ELSE cur
\* A step in which RunPipeline returns nil: the last stage of a pass, or a
\* gather (at Pop or after the wait) that finds no guard to hold.
PassReturns ==
    /\ pc' = "idle"
    /\ \/ pc \in StagePcs \cup {"copy", "backoff"}
       \/ pc = "idle" /\ q' # q /\ TakesPath
\* Nothing outside the worker acted on the disks or the catalog during the pass.
Undisturbed == edits' + Len(selects') = hist'.ev0

ConflictResolved ==
    pc = "copy" /\ cp.site = "p2c" /\ cp.phase = 2 /\ pc' \notin {"copy", "failed"}

\* C27: when the conflict branch of P2 has returned and the Spaces file is
\* there, the row under the original name is the new inode's, the only
\* spaces_view row of that inode carries the Spaces mtime, and the renamed
\* Entry (the original inode) has no spaces_view row.
C27_ViewRetargeted ==
    [][(ConflictResolved /\ Exists(spc', cur)) =>
          LET e == lookupEntry(db', cur)
          IN /\ e # NoEntry /\ e.ino = arch'[cur].ino /\ e.ino # L.entry.ino
             /\ {v \in db'.vs : v.ino = e.ino} = {View(e.ino, spc'[cur].m)}
             /\ \A v \in db'.vs : v.ino # L.entry.ino]_vars
\* ---- a conflict branch that stops half-way ----

Stopped == hist.stopped
\* C28: a conflict branch on a file returned an error after its catalog
\* rename, nothing was edited or requested since, and the queue has
\* drained: the original name holds the bytes Spaces had, the conflict
\* name holds the bytes Archives had, and each has a row of its own.
C28_ConflictRecoverable ==
    (/\ Drained /\ Stopped.on
     /\ Stopped.ev = edits + Len(selects)
     /\ Stopped.a.kind = "file" /\ Stopped.s.kind = "file")
    => /\ arch[Stopped.p].kind = "file" /\ arch[Stopped.p].c = Stopped.s.c
       /\ arch[Stopped.cn].kind = "file" /\ arch[Stopped.cn].c = Stopped.a.c
       /\ lookupEntry(db, Stopped.p) # NoEntry
       /\ lookupEntry(db, Stopped.p).ino = arch[Stopped.p].ino
       /\ lookupEntry(db, Stopped.cn) # NoEntry
       /\ lookupEntry(db, Stopped.cn).ino = arch[Stopped.cn].ino
\* ---- frame of the rollback ----

\* The step in which the worker runs rollbackState for the failed path.
RollsBack == pc = "failed" /\ ~cancelled /\ pc' # pc

\* C29: rollbackState changes the selected flag of no row other than the
\* one of the failed path.
C29_RollbackTouchesOwnRowOnly ==
    [][RollsBack =>
          \A e \in db.es : \A f \in db'.es :
              (f.ino = e.ino /\ e.ino # lookupEntry(db, cur).ino) => f.sel = e.sel]_vars
\* ---- rows of paths that are on neither disk ----

\* A start with the catalog an earlier run has left: rows for d and d/g,
\* selected or not, with or without spaces_view rows, while Archives
\* holds neither path and Spaces holds both or none.
NoTree == [p \in Paths |-> NoFile]
LeftRows(sel) == {Entry(1, 0, D[1], "dir", 1, sel), Entry(2, 1, G[2], "file", 1, sel)}
WInit ==
    /\ arch = NoTree
    /\ spc \in InitSpcs
    /\ \E sel \in BOOLEAN : \E vs \in {{}, {View(1, 1), View(2, 1)}} :
          db = [es |-> LeftRows(sel), vs |-> vs]
    /\ trash = {}
    /\ now = 1 /\ nextIno = 3
    /\ q = NewEvalQueue
    /\ pending = {}
    /\ cancelled = FALSE
    /\ pc = "start" /\ cur = <<>> /\ attempt = 0 /\ L = NoLocals /\ cp = NoCopy
    /\ copyRes = "none"
    /\ edits = 0 /\ selects = <<>> /\ overflows = 0
    /\ hist = NewHist
    /\ notify = 0
    /\ qh = NewCallers
    /\ ignore = {DotPattern}
    /\ ui = NoLabel
    /\ bus = NewEventBus
    /\ watch = NoWatch
    /\ scan = NoScan
WalkSpec == WInit /\ [][Next]_vars

\* The path of a row is on Archives or on Spaces; a row whose parent chain
\* ends at a missing row has no path on either.
RowOnDisk(e) ==
    LET p == resolveRelPath(db.es, e)
    IN /\ lookupEntry(db, p) = e
       /\ Exists(arch, p) \/ Exists(spc, p)
\* C30: when the queue has drained after the start-up walk and nothing was
\* edited since the start, every row of the catalog belongs to a path that
\* is on one of the disks, and every spaces_view row belongs to such a row.
C30_WalkClearsMissingPaths ==
    (Drained /\ edits = 0)
    => /\ \A e \in db.es : RowOnDisk(e)
       /\ \A v \in db.vs : \E e \in db.es : e.ino = v.ino
\* ---- parent linkage ----

\* Following parent_ino from a row reaches the virtual root 0 through rows
\* that exist, without coming back to an inode already seen.
RECURSIVE ReachesRoot(_, _, _)
ReachesRoot(es, ino, seen) ==
    IF ino = 0 THEN TRUE
    ELSE IF ino \in seen \/ GetEntry(es, ino) = NoEntry THEN FALSE
    ELSE ReachesRoot(es, GetEntry(es, ino).parent, seen \cup {ino})

\* C31: every row's parent_ino is 0 or the inode of a directory row, and
\* the parent chain of every row ends at the root.
C31_ParentLinkageIsTree ==
    \A e \in db.es :
        /\ e.parent = 0 \/ \E d \in db.es : d.ino = e.parent /\ d.type = "dir"
        /\ ReachesRoot(db.es, e.ino, {})
\* ---- UpsertEntry over a row of another inode ----

\* The rows handed to UpsertEntry.
UpsertInputs ==
    {Entry(i, par, n, t, 1, sel) :
        i \in Inodes, par \in (0..MaxInode), n \in RowNames, t \in RowTypes, sel \in {FALSE}}
\* store.UpsertEntry with any row whose parent is the root or has a row.
TUpsert(e) ==
    /\ e.parent # e.ino
    /\ e.parent = 0 \/ GetEntry(db.es, e.parent) # NoEntry
    /\ db' = UpsertEntry(db, e)
    /\ UNCHANGED <<q, selects>> /\ SFrame
\* store.UpsertSpacesView for a row of the catalog.
TView(ino) ==
    /\ UpsertSpacesViewOk(db, ino)
    /\ db' = UpsertSpacesView(db, View(ino, 1))
    /\ UNCHANGED <<q, selects>> /\ SFrame
TNext ==
    \/ \E e \in UpsertInputs : TUpsert(e)
    \/ \E i \in Inodes : TView(i)
UpsertSpec == QInit /\ [][TNext]_vars

\* The inode no longer names a row, a parent or a spaces_view row.
Forgotten(d, ino) ==
    /\ \A x \in d.es : x.ino # ino /\ x.parent # ino
    /\ \A v \in d.vs : v.ino # ino
\* C32: UpsertEntry of a row whose (parent_ino, name) is held by a row of
\* another inode leaves nothing that refers to that other inode.
C32_UpsertReplacesSubtree ==
    [][\A e \in UpsertInputs :
          LET old == GetEntryByPath(db.es, e.parent, e.name)
          IN (db' = UpsertEntry(db, e) /\ old # NoEntry /\ old.ino # e.ino)
             => Forgotten(db', old.ino)]_vars
\* ---- directories created while the daemon runs ----

\* Both trees are empty at the start, so the watcher starts with the two
\* roots, and directory d and file d/g are created on Archives afterwards.
MInitWith(a, n) ==
    /\ arch = a /\ spc = NoTree
    /\ trash = {}
    /\ now = 1 /\ nextIno = n
    /\ db = [es |-> {}, vs |-> {}]
    /\ q = NewEvalQueue
    /\ pending = {}
    /\ cancelled = FALSE
    /\ pc = "start" /\ cur = <<>> /\ attempt = 0 /\ L = NoLocals /\ cp = NoCopy
    /\ copyRes = "none"
    /\ edits = 0 /\ selects = <<>> /\ overflows = 0
    /\ hist = NewHist
    /\ notify = 0
    /\ qh = NewCallers
    /\ ignore = {DotPattern}
    /\ ui = NoLabel
    /\ bus = NewEventBus
    /\ watch = NoWatch
    /\ scan = NoScan
MInit == MInitWith(NoTree, 1)

\* Daemon.Run has been entered and the context is not done.
Running == pc # "stopped" /\ (pc = "start" => scan.main # "start")
MFrame == UNCHANGED <<spc, trash, db, cancelled, pc, cur, attempt, L, cp, copyRes, selects,
                      overflows, hist, notify, qh, ignore, ui, bus, scan>>

\* mkdir <archives>/d: the root is watched, so the kernel queues the event.
MMkdir ==
    /\ Running
    /\ edits < MaxEdits /\ now < MaxClock
    /\ ~Exists(arch, D)
    /\ arch' = [arch EXCEPT ![D] = DirNode(now + 1, nextIno)]
    /\ now' = now + 1 /\ nextIno' = nextIno + 1 /\ edits' = edits + 1
    /\ watch' = [watch EXCEPT !.events = @ \cup {D}, !.pushed = @ \ {D}]
    /\ UNCHANGED <<q, pending>> /\ MFrame
\* A file is created in d: an event is queued only if d is on the watch list.
MWrite ==
    /\ Running
    /\ edits < MaxEdits /\ now < MaxClock
    /\ IsDirAt(arch, D) /\ ~Exists(arch, G)
    /\ arch' = Touch([arch EXCEPT ![G] = File(now + 1, now + 1, nextIno)], D, now + 1)
    /\ now' = now + 1 /\ nextIno' = nextIno + 1 /\ edits' = edits + 1
    /\ watch' = [watch EXCEPT !.events = IF D \in watch.dirs THEN @ \cup {G} ELSE @,
                              !.pushed = @ \ {G}]
    /\ UNCHANGED <<q, pending>> /\ MFrame
\* Watcher.Start, event case: the path joins the debounce set and, the
\* event being a Create, watcher.Add is called on it (not on what is below).
MEvent(p) ==
    /\ Running
    /\ p \in watch.events
    /\ pending' = pending \cup {p}
    /\ watch' = [watch EXCEPT !.events = @ \ {p},
                              !.dirs = IF IsDirAt(arch, p) THEN @ \cup {p} ELSE @]
    /\ UNCHANGED <<arch, now, nextIno, edits, q>> /\ MFrame
\* Watcher.Start, timer case: PushMany of the debounce set, a Go map, in
\* the order the iteration happens to take.
MFlush ==
    /\ pending # {} /\ Running
    /\ \E order \in Orders(pending) : q' = PushMany(q, order)
    /\ pending' = {}
    /\ watch' = [watch EXCEPT !.pushed = @ \cup pending]
    /\ UNCHANGED <<arch, now, nextIno, edits>> /\ MFrame

MNext ==
    \/ Startup
    \/ Pop
    \/ RunStage
    \/ Failed
    \/ Retry
    \/ MMkdir
    \/ MWrite
    \/ \E p \in Paths : MEvent(p)
    \/ MFlush
    \/ Overflow
    \/ Cancel
    \/ Stop
MkdirSpec == MInit /\ [][MNext]_vars

\* Nothing is left to do: the queue has drained and no event is waiting.
Quiet == Drained /\ watch.events = {}

\* C33: when d and d/g are on Archives, both have been pushed since they
\* were created and nothing is left to do, both have a row.
C33_RegisteredInAnyOrder ==
    (Quiet /\ Exists(arch, D) /\ Exists(arch, G) /\ {D, G} \subseteq watch.pushed)
    => (lookupEntry(db, D) # NoEntry /\ lookupEntry(db, G) # NoEntry)

\* C34: when d was created while the daemon ran, d/g was created in it,
\* nothing is left to do and no overflow walk has run, d/g has been pushed.
C34_InnerPathsPushed ==
    (Quiet /\ overflows = 0 /\ Exists(arch, D) /\ Exists(arch, G))
    => G \in watch.pushed
\* ---- directories whose own mtime changed ----

\* A directory present in both trees, with its entries row and spaces_view.
DirBothSides(p) ==
    /\ Exists(arch, p) /\ IsDirAt(arch, p)
    /\ Exists(spc, p) /\ IsDirAt(spc, p)
    /\ lookupEntry(db, p) # NoEntry /\ lookupView(db, p) # NoView

\* C35: a pass on a directory that is in both trees with an Entry and a
\* SpacesView, where nothing else acts during the pass, starts no copy in
\* P2 and does not end in an error (rollback, wait and retry).
C35_DirMtimeAbsorbed ==
    [][(/\ pc \in {"p2", "copy"} /\ DirBothSides(cur)
        /\ ~cancelled /\ ~Has(q, cur) /\ Undisturbed)
       => (pc' # "failed" /\ (pc = "p2" => pc' # "copy"))]_vars
\* ---- the inode of a replaced Archives file ----

\* The entries row of p carries the inode of the Archives file at p.
InodeAgrees(p) ==
    (Exists(arch, p) /\ lookupEntry(db, p) # NoEntry)
    => lookupEntry(db, p).ino = arch[p].ino
\* The pass that returns in this step copied Spaces over the Archives path.
ReplacedArchives == pc = "copy" /\ cp.src = "S"

\* C36: when a pass in which a copy from Spaces replaced the Archives file
\* returns without error, and nothing else acted during the pass, the
\* entries row of the path carries the inode of the file now on Archives.
C36_EntryInodeFollowsArchives ==
    [][(ReplacedArchives /\ PassReturns /\ Undisturbed)
       => \A p \in {cur} : (InodeAgrees(p))']_vars
\* ---- overflow signals and full scans ----

\* Overflow signals followed in the specification of the scans.
MaxSignals == 3
Scanners == {"main", "handler"}
At(g) == IF g = "main" THEN scan.main ELSE scan.handler
Goto(g, pos) == IF g = "main" THEN [scan EXCEPT !.main = pos] ELSE [scan EXCEPT !.handler = pos]
\* Where a caller of enqueueAll goes when the call returns: Run goes on to
\* start the overflow goroutine and the worker loop, the goroutine to its
\* next receive.
Returned(g, s) ==
    IF g = "main" THEN [s EXCEPT !.main = "loop", !.handler = "recv"]
    ELSE [s EXCEPT !.handler = "recv"]
OFrame == UNCHANGED <<arch, spc, trash, now, nextIno, db, pending, cancelled, cur, attempt, L, cp,
                      copyRes, edits, selects, overflows, hist, notify, qh, ignore, ui, bus>>

\* Daemon.Run: NewWatcher and the goroutine of watcher.Start, then the call
\* of enqueueAll.
OStart ==
    /\ pc = "start" /\ scan.main = "start"
    /\ scan' = [scan EXCEPT !.main = "cas"]
    /\ UNCHANGED <<q, pc, watch>> /\ OFrame
\* enqueueAll: scanning.CompareAndSwap(false, true), return when it fails.
ECas(g) ==
    /\ At(g) = "cas"
    /\ scan' = IF scan.scanning THEN Returned(g, scan)
               ELSE [Goto(g, "arch") EXCEPT !.scanning = TRUE, !.seen[g] = scan.sigs]
    /\ pc' = IF scan.scanning /\ g = "main" THEN "idle" ELSE pc
    /\ UNCHANGED <<q, watch>> /\ OFrame
\* enqueueAll: walkAndEnqueue(archivesRoot), walkAndEnqueue(spacesRoot) and
\* reconcileChildren(0, ""), one after the other.
EWalk(g) ==
    /\ At(g) \in {"arch", "spc", "db"}
    /\ LET paths == IF At(g) = "arch" THEN walkAndEnqueue(arch)
                    ELSE IF At(g) = "spc" THEN walkAndEnqueue(spc)
                    ELSE reconcileChildren(db.es)
       IN /\ q' = PushMany(q, paths)
          /\ watch' = [watch EXCEPT !.pushed = @ \cup {paths[i] : i \in 1..Len(paths)}]
    /\ scan' = Goto(g, IF At(g) = "arch" THEN "spc" ELSE IF At(g) = "spc" THEN "db" ELSE "end")
    /\ UNCHANGED pc /\ OFrame
\* enqueueAll: the deferred scanning.Store(false) and the return.
EEnd(g) ==
    /\ At(g) = "end"
    /\ scan' = [Returned(g, scan) EXCEPT !.scanning = FALSE,
                   !.answered = IF scan.seen[g] > @ THEN scan.seen[g] ELSE @]
    /\ pc' = IF g = "main" THEN "idle" ELSE pc
    /\ UNCHANGED <<q, watch>> /\ OFrame
\* The overflow goroutine: for range watcher.Overflow.
HRecv ==
    /\ scan.handler = "recv" /\ scan.ch = 1
    /\ scan' = [scan EXCEPT !.ch = 0, !.handler = "cas"]
    /\ UNCHANGED <<q, pc, watch>> /\ OFrame
\* A non-blocking send on an Overflow channel made without a buffer: the
\* signal is lost unless the goroutine is waiting in its receive.
SendUnbuffered(s) == IF s.handler = "recv" THEN [s EXCEPT !.ch = 1] ELSE s
\* The non-blocking send on Overflow, a channel with a buffer of one: the
\* signal is kept, or dropped when one is already there.
SendOverflow(s) == [s EXCEPT !.ch = 1]
\* Watcher.Start reads ErrEventOverflow and signals it.
WOverflow ==
    /\ scan.main # "start" /\ scan.sigs < MaxSignals
    /\ scan' = [SendOverflow(scan) EXCEPT !.sigs = @ + 1,
                   !.busy = IF scan.scanning THEN @ + 1 ELSE @]
    /\ UNCHANGED <<q, pc, watch>> /\ OFrame

ScanStep == OStart \/ HRecv \/ \E g \in Scanners : ECas(g) \/ EWalk(g) \/ EEnd(g)
ONext ==
    \/ OStart \/ HRecv \/ WOverflow
    \/ \E g \in Scanners : ECas(g) \/ EWalk(g) \/ EEnd(g)
ScanLive == Init /\ [][ONext]_vars /\ WF_vars(ScanStep)

InScan(g) == At(g) \in {"arch", "spc", "db", "end"}
\* C37: every overflow signal is followed by a full scan that began after
\* the signal and ran to its end, and the two callers of enqueueAll are
\* never inside a scan at the same time.
C37_OverflowAnsweredByScan ==
    /\ \A i \in 1..MaxSignals : (scan.sigs >= i) ~> (scan.answered >= i)
    /\ [](~(InScan("main") /\ InScan("handler")))
C37_Witness ==
    /\ scan.sigs = MaxSignals /\ scan.answered = MaxSignals /\ scan.handler = "recv"
    /\ scan.busy >= 2
\* ---- the initial scan and the watcher's registration ----

\* Directory d is on Archives at the start; file d/g is created after
\* Daemon.Run has been entered.
BInit == MInitWith([NoTree EXCEPT ![D] = DirNode(1, 1)], 2)
\* Watcher.Start in its goroutine: addRecursive reaches d and adds it.
BAdd ==
    /\ Running /\ D \notin watch.dirs /\ IsDirAt(arch, D)
    /\ watch' = [watch EXCEPT !.dirs = @ \cup {D}]
    /\ UNCHANGED <<arch, now, nextIno, edits, q, pending>> /\ MFrame
BootNext ==
    \/ OStart
    \/ ECas("main")
    \/ EWalk("main")
    \/ EEnd("main")
    \/ BAdd
    \/ MWrite
    \/ \E p \in Paths : MEvent(p)
    \/ MFlush
    \/ WOverflow
    \/ HRecv
    \/ ECas("handler")
    \/ EWalk("handler")
    \/ EEnd("handler")
BootSpec == BInit /\ [][BootNext]_vars

\* The scan of Daemon.Run is over, the watcher has added its directories
\* and holds no event, and no overflow has been signalled.
Settled ==
    /\ scan.main = "loop" /\ scan.sigs = 0
    /\ D \in watch.dirs /\ watch.events = {} /\ pending = {}
\* C38: once the initial scan is over and the watcher has nothing left, a
\* file created under Archives after Daemon.Run was entered has been
\* pushed to the queue, by the scan or by the watcher.
C38_NoGapAtStart == (Settled /\ Exists(arch, G)) => G \in watch.pushed
\* ---- conflict names and the watcher ----

\* The base name of p is "<stem>_conflict-<n><ext>".
HasConflictSuffix(p) == Base(p)[2] >= 1
\* C39: no path whose name carries the conflict suffix is in the watcher's
\* debounce set, from which the paths go to the queue.
C39_ConflictNamesNotWatched == \A p \in pending : ~HasConflictSuffix(p)
\* ---- Publish and closed channels ----

\* The channel of c is closed: it has left the map and close(ch) has run.
Closed(c) == ~bus.clients[c].on /\ c \notin bus.closing
\* C40: whatever the interleaving of Subscribe, Unsubscribe and Publish, a
\* send of Publish never goes to a channel that Unsubscribe has closed.
C40_NoSendOnClosedChannel ==
    [][\A c \in Clients : SendStep(c) => ~Closed(c)]_vars
\* A Publish is in its loop while an unsubscribed channel awaits its close.
C40_Witness == bus.pc = "loop" /\ bus.todo # {} /\ bus.closing # {} /\ bus.n >= 2
====
